---- MODULE Spec2Model ----
(***************************************************************************)
(* A model of the experiment runner of src/src/App.js (the 6-trial         *)
(* variant): the MainApp phase machine, the PromptInput component, the     *)
(* generation poller, the rating phase, and the Timer component.           *)
(*                                                                         *)
(* Two families of specifications share the variables:                    *)
(*   Spec       the application (MainApp and the components it mounts);    *)
(*              the Timer is seen there only through its onComplete call.  *)
(*   TimerSpec  one Timer instance against a clock, with TimerFairSpec     *)
(*              adding the fairness the browser's scheduling gives.        *)
(***************************************************************************)
EXTENDS Integers, Sequences, FiniteSets, TLC

(***************************************************************************)
(* Bounds of the model.                                                    *)
(***************************************************************************)
\* longest prompt list a participant builds in one input phase
MaxPrompts == 3
\* rating submissions that may be in flight at once
MaxInFlight == 1
\* unanswered save-timing requests that are counted (further ones are sent
\* all the same)
MaxTimingInFlight == 2
\* largest Timer duration (seconds) tried in TimerSpec
MaxSeconds == 1
\* longest delay (ms) between a Timer's first render and its mount effect
MaxEffectDelay == 50
\* longest countdown of the older variant's Timer, in seconds
MaxLegacySeconds == 3

(***************************************************************************)
(* Program constants.                                                      *)
(***************************************************************************)
\* App.js:855  const maxAttempts = 4
maxAttempts == 4
\* App.js:947  nextTrialIndex >= 7
TotalTrials == 7
\* App.js:7
WARNING_TIME == 30
\* App.js:202  setInterval(..., 100)
TickMs == 100
\* App.js:180, 186  seconds * 1000, / 1000
MsPerSecond == 1000

\* null where a string is expected
Null == "<null>"
\* no request / no response, where a record is expected
NoRequest == [endpoint |-> "none"]
\* a rating not yet given (App.js:1059  creativity: null, intention: null)
NoRating == -1

(***************************************************************************)
(* Values the inputs are drawn from.                                       *)
(***************************************************************************)
\* text a participant can put in a prompt field: empty, blank, two texts
PromptValues == {"", " ", "a", "b"}
\* text typed in the Prolific ID field
IdValues == {"", " ", "R7X9"}
\* options of a survey select ("" is the placeholder option)
SurveyValues == {"", "basic"}
\* positions of the two rating sliders used by the model (range 0..4)
RatingValues == {0, 4}
\* identities of generated images
ImageIds == {1, 2}

\* String.prototype.trim on the model's strings
Trim(s) == IF s = " " THEN "" ELSE s

\* mutant: filter(prompt => prompt), without the trim
RECURSIVE FilterPromptsUntrimmed(_)
FilterPromptsUntrimmed(ps) ==
  IF ps = <<>> THEN <<>>
  ELSE IF Head(ps) # ""
       THEN <<Head(ps)>> \o FilterPromptsUntrimmed(Tail(ps))
       ELSE FilterPromptsUntrimmed(Tail(ps))

\* Array.prototype.filter(prompt => prompt.trim())
RECURSIVE FilterPrompts(_)
FilterPrompts(ps) ==
  IF ps = <<>> THEN <<>>
  ELSE IF Trim(Head(ps)) # ""
       THEN <<Head(ps)>> \o FilterPrompts(Tail(ps))
       ELSE FilterPrompts(Tail(ps))

\* every ordering of a sequence without repetitions
Orderings(s) ==
  {t \in [1..Len(s) -> {s[i] : i \in 1..Len(s)}] :
     \A i, j \in 1..Len(s) : i # j => t[i] # t[j]}

\* image batches a get-all-images answer can carry: n distinct images, in
\* the backend's order
Batches == {<<>>, <<1>>, <<1, 2>>}

(***************************************************************************)
(* The session plan (App.js:9-17, 775-791).                                *)
(***************************************************************************)
\* App.js:9
PRACTICE_THEME == "SPACE"
\* App.js:10-17
TRIAL_THEMES == <<"TIME", "MYSTERY", "COMFORT", "MEMORY", "CURIOSITY", "FUTURE">>
\* App.js:19-54, the id of each entry
CONDITIONS == [BE_CREATIVE |-> [id |-> "BE_CREATIVE"],
               BE_FLUENT |-> [id |-> "BE_FLUENT"]]
\* App.js:777  Array(3)
BlockLength == 3

\* Array(3).fill(CONDITIONS[condition])
createSequence(condition) == [i \in 1..BlockLength |-> CONDITIONS[condition]]

\* mutant: the label is taken from the other branch
DrawConditionsMislabelled(isCreativeFirst) ==
  [order |-> IF isCreativeFirst THEN "fluent_first" ELSE "creative_first",
   sequence |-> IF isCreativeFirst
                THEN createSequence("BE_CREATIVE") \o createSequence("BE_FLUENT")
                ELSE createSequence("BE_FLUENT") \o createSequence("BE_CREATIVE")]

\* the initializer of conditions (App.js:775-785); isCreativeFirst is
\* Math.random() < 0.5
DrawConditions(isCreativeFirst) ==
  [order |-> IF isCreativeFirst THEN "creative_first" ELSE "fluent_first",
   sequence |-> IF isCreativeFirst
                THEN createSequence("BE_CREATIVE") \o createSequence("BE_FLUENT")
                ELSE createSequence("BE_FLUENT") \o createSequence("BE_CREATIVE")]

\* outcomes of shuffleArray(TRIAL_THEMES) the model starts a session with:
\* the order as written, that order reversed, and one with no theme in place
ThemeOrders ==
  {TRIAL_THEMES,
   <<"FUTURE", "CURIOSITY", "MEMORY", "COMFORT", "MYSTERY", "TIME">>,
   <<"MYSTERY", "COMFORT", "TIME", "FUTURE", "MEMORY", "CURIOSITY">>}

VARIABLES
  \* MainApp (App.js:752-757)
  currentPage, prolificId, currentTrialIndex, generatedImages, isLoading, error,
  \* ProlificIdEntry.id, ConsentForm/InternetUsageAgreement.agreed,
  \* AiExperienceSurvey.responses, and the form's own error
  idField, agreed, responses, formError,
  \* PromptInput (App.js:573-583)
  prompts, promptsRef, isTimeUp, selectedPrompt, inputError, hasSubmitted,
  \* the save-prompt request in flight (NoRequest when none), and the
  \* asynchronous event (a network answer, the Timer's completion) whose
  \* continuation ran in the step that led to this state (NoRequest after
  \* any other step)
  savePrompt, delivered,
  \* pollGenerationStatus (App.js:852-925): the closure's attempts counter,
  \* where the poll chain stands, and the status requests issued so far
  attempts, pollState, statusRequests,
  \* ImageRatingInterface (App.js:1048-1050) and its requests in flight
  randomizedImages, ratings, ratingError, ratingReqs,
  \* for the record: the save-prompt requests issued so far in the current
  \* input phase, whether the backend has accepted a save-ratings request,
  \* and the save-ratings body posted by the step that led to this state
  \* (<<>> after any other step)
  promptRequests, ratingsSaved, ratingsSent,
  \* Timer (App.js:177-206) and the clock it reads
  now, timerState, seconds, endTimeRef, hasCompletedRef, intervalActive,
  intervalArmedAt, timeLeft, isWarning, completions, firedAt, tickRan,
  \* the session plan: MainApp's conditions and trialThemes (App.js:775-791)
  conditions, trialThemes,
  \* PromptInput's timing state (App.js:578-580): whether an input phase is
  \* open, the instant it was entered, the recorded first keystroke, the
  \* firstKeypressLatency last handed to onSubmit; and, for the record, the
  \* instants of the first and of the last keystroke of the phase
  inputPhase, responseStartRef, firstKeypressTime, firstKeypressRecorded,
  reportedLatency, firstKeyAt, lastKeyAt,
  \* the totalResponseTime last handed to onSubmit and, for the record, the
  \* instant handleTimerComplete ran
  reportedTotal, timeUpAt,
  \* shuffleArray (App.js:73-80): its argument, its newArray, its loop
  \* index i (0-based, as in the code), where the call stands, and the
  \* trialThemes built from its result (App.js:790)
  array, newArray, shuffleIndex, shuffleState, drawnThemes,
  \* and, for the record, the values of j drawn so far by the call
  draws,
  \* usePageTracking (App.js:89-114): its two refs, the save-timing records
  \* emitted by the step that led to this state, and the number of
  \* save-timing requests not yet answered
  \* and, for the record, the instant the current phase was entered
  previousPageRef, startTimeRef, timingSent, timingInFlight, enteredAt,
  \* the older variant (part_000): its Timer (part_000:80-131) inside its
  \* PromptInput, the calls of onComplete and the save-prompts requests of
  \* the current countdown, the requests not yet answered, MainApp's error
  legacyTimer, legacyTimeLeft, legacyIsWarning, legacyInterval,
  legacyEffectPending, legacyCompletions, legacySent, legacyInFlight,
  legacyError

appVars == <<currentPage, prolificId, currentTrialIndex, generatedImages,
             isLoading, error, idField, agreed, responses, formError,
             prompts, promptsRef, isTimeUp, selectedPrompt, inputError,
             hasSubmitted, savePrompt, delivered,
             attempts, pollState, statusRequests,
             randomizedImages, ratings, ratingError, ratingReqs,
             promptRequests, ratingsSaved, ratingsSent>>

timerVars == <<now, timerState, seconds, endTimeRef, hasCompletedRef,
               intervalActive, intervalArmedAt, timeLeft, isWarning,
               completions, firedAt, tickRan>>

planVars == <<conditions, trialThemes>>

latencyVars == <<inputPhase, responseStartRef, firstKeypressTime,
                 firstKeypressRecorded, reportedLatency, firstKeyAt, lastKeyAt,
                 reportedTotal, timeUpAt>>

shuffleVars == <<array, newArray, shuffleIndex, shuffleState, drawnThemes,
                 draws>>

trackVars == <<previousPageRef, startTimeRef, timingSent, timingInFlight,
               enteredAt>>

legacyVars == <<legacyTimer, legacyTimeLeft, legacyIsWarning, legacyInterval,
                legacyEffectPending, legacyCompletions, legacySent,
                legacyInFlight, legacyError>>

vars == <<appVars, timerVars, planVars, latencyVars, shuffleVars, trackVars,
          legacyVars>>

mainVars == <<currentPage, prolificId, currentTrialIndex, generatedImages,
              isLoading, error>>
formVars == <<idField, agreed, responses, formError>>
inputVars == <<prompts, promptsRef, isTimeUp, selectedPrompt, inputError,
               hasSubmitted>>
netVars == <<savePrompt>>
pollVars == <<attempts, pollState, statusRequests>>
ratingVars == <<randomizedImages, ratings, ratingError, ratingReqs>>

(***************************************************************************)
(* Initial state: MainApp's useState initialisers.                         *)
(***************************************************************************)
EmptyResponses == [genAiExperience |-> "", textToImageExperience |-> ""]

AppInit ==
  /\ currentPage = "prolificId"
  /\ prolificId = ""
  /\ currentTrialIndex = 0
  /\ generatedImages = <<>>
  /\ isLoading = FALSE
  /\ error = Null
  /\ idField = ""
  /\ agreed = FALSE
  /\ responses = EmptyResponses
  /\ formError = Null
  /\ prompts = <<"">>
  /\ promptsRef = <<"">>
  /\ isTimeUp = FALSE
  /\ selectedPrompt = Null
  /\ inputError = Null
  /\ hasSubmitted = FALSE
  /\ savePrompt = NoRequest
  /\ delivered = NoRequest
  /\ attempts = 0
  /\ pollState = "idle"
  /\ statusRequests = 0
  /\ randomizedImages = <<>>
  /\ ratings = <<>>
  /\ ratingError = Null
  /\ ratingReqs = <<>>
  /\ promptRequests = 0
  /\ ratingsSaved = FALSE
  /\ ratingsSent = <<>>

\* absent instant / null latency
NoTime == -1

\* const [conditions] = useState(() => ...), const [trialThemes] =
\* useState(() => [PRACTICE_THEME, ...shuffleArray(themes)])
PlanInit ==
  /\ conditions \in {DrawConditions(b) : b \in BOOLEAN}
  /\ trialThemes \in {<<PRACTICE_THEME>> \o o : o \in ThemeOrders}

\* PromptInput is not mounted
LatencyInit ==
  /\ inputPhase = "none"
  /\ responseStartRef = NoTime
  /\ firstKeypressTime = NoTime
  /\ firstKeypressRecorded = FALSE
  /\ reportedLatency = NoTime
  /\ firstKeyAt = NoTime
  /\ lastKeyAt = NoTime
  /\ reportedTotal = NoTime
  /\ timeUpAt = NoTime

\* shuffleArray has not been called
ShuffleInit ==
  /\ array = TRIAL_THEMES
  /\ newArray = <<>>
  /\ shuffleIndex = 0
  /\ shuffleState = "idle"
  /\ drawnThemes = <<>>
  /\ draws = <<>>

\* usePageTracking's first render: useRef(Date.now()), useRef(currentPage)
TrackInit ==
  /\ previousPageRef = "prolificId"
  /\ startTimeRef = 0
  /\ timingSent = <<>>
  /\ timingInFlight = 0
  /\ enteredAt = 0

\* the older variant's PromptInput is not mounted
LegacyInit ==
  /\ legacyTimer = "idle"
  /\ legacyTimeLeft = 0
  /\ legacyIsWarning = FALSE
  /\ legacyInterval = FALSE
  /\ legacyEffectPending = FALSE
  /\ legacyCompletions = 0
  /\ legacySent = 0
  /\ legacyInFlight = 0
  /\ legacyError = Null

\* mutant: the initializers run again on a render (a plain const in the
\* component body instead of useState)
PlanRedrawn ==
  /\ conditions' \in {DrawConditions(b) : b \in BOOLEAN}
  /\ trialThemes' \in {<<PRACTICE_THEME>> \o o : o \in ThemeOrders}

\* the plan after any step: useState hands every render the stored value,
\* and neither setter is taken from the pair (App.js:775, 788)
PlanUnchanged ==
  /\ conditions' = conditions
  /\ trialThemes' = trialThemes

(***************************************************************************)
(* Mounting a component gives it its useState initial values.  A component *)
(* that is not mounted holds these values too (its state is discarded).    *)
(***************************************************************************)
FreshForm ==
  /\ idField' = ""
  /\ agreed' = FALSE
  /\ responses' = EmptyResponses
  /\ formError' = Null

FreshPromptInput ==
  /\ prompts' = <<"">>
  /\ promptsRef' = <<"">>
  /\ isTimeUp' = FALSE
  /\ selectedPrompt' = Null
  /\ inputError' = Null
  /\ hasSubmitted' = FALSE

(***************************************************************************)
(* ProlificIdEntry (App.js:226-257)                                        *)
(***************************************************************************)
SetId(v) ==
  /\ currentPage = "prolificId"
  /\ idField' = v
  /\ UNCHANGED <<agreed, responses, formError>>
  /\ UNCHANGED <<mainVars, inputVars, netVars, pollVars, ratingVars>>
  /\ delivered' = NoRequest
  /\ PlanUnchanged
  /\ ratingsSent' = <<>>
  /\ UNCHANGED <<promptRequests, ratingsSaved>>
  /\ UNCHANGED <<timerVars, latencyVars, shuffleVars, trackVars, legacyVars>>

\* handleSubmit, and getPageProps' onSubmit for 'prolificId'
SubmitProlificId ==
  /\ currentPage = "prolificId"
  /\ IF Trim(idField) # ""
     THEN /\ prolificId' = idField
          /\ currentPage' = "consent"
          /\ FreshForm
     ELSE UNCHANGED <<prolificId, currentPage, formVars>>
  /\ UNCHANGED <<currentTrialIndex, generatedImages, isLoading, error>>
  /\ UNCHANGED <<inputVars, netVars, pollVars, ratingVars>>
  /\ delivered' = NoRequest
  /\ PlanUnchanged
  /\ ratingsSent' = <<>>
  /\ UNCHANGED <<promptRequests, ratingsSaved>>
  /\ UNCHANGED <<timerVars, latencyVars, shuffleVars, trackVars, legacyVars>>

(***************************************************************************)
(* ConsentForm (App.js:372-463), InternetUsageAgreement (App.js:465-508)   *)
(***************************************************************************)
SetAgreed(v) ==
  /\ currentPage \in {"consent", "internetUsage"}
  /\ agreed' = v
  /\ UNCHANGED <<idField, responses, formError>>
  /\ UNCHANGED <<mainVars, inputVars, netVars, pollVars, ratingVars>>
  /\ delivered' = NoRequest
  /\ PlanUnchanged
  /\ ratingsSent' = <<>>
  /\ UNCHANGED <<promptRequests, ratingsSaved>>
  /\ UNCHANGED <<timerVars, latencyVars, shuffleVars, trackVars, legacyVars>>

\* ConsentForm.handleSubmit; the button is disabled while !agreed, the
\* handler checks again
ConsentSubmit ==
  /\ currentPage = "consent"
  /\ IF ~agreed
     THEN /\ formError' = "Please agree to the consent form before continuing"
          /\ UNCHANGED <<currentPage, idField, agreed, responses>>
     ELSE /\ currentPage' = "internetUsage"
          /\ FreshForm
  /\ UNCHANGED <<prolificId, currentTrialIndex, generatedImages, isLoading, error>>
  /\ UNCHANGED <<inputVars, netVars, pollVars, ratingVars>>
  /\ delivered' = NoRequest
  /\ PlanUnchanged
  /\ ratingsSent' = <<>>
  /\ UNCHANGED <<promptRequests, ratingsSaved>>
  /\ UNCHANGED <<timerVars, latencyVars, shuffleVars, trackVars, legacyVars>>

\* the Continue button is disabled while !agreed
InternetContinue ==
  /\ currentPage = "internetUsage"
  /\ agreed
  /\ currentPage' = "aiExperienceSurvey"
  /\ FreshForm
  /\ UNCHANGED <<prolificId, currentTrialIndex, generatedImages, isLoading, error>>
  /\ UNCHANGED <<inputVars, netVars, pollVars, ratingVars>>
  /\ delivered' = NoRequest
  /\ PlanUnchanged
  /\ ratingsSent' = <<>>
  /\ UNCHANGED <<promptRequests, ratingsSaved>>
  /\ UNCHANGED <<timerVars, latencyVars, shuffleVars, trackVars, legacyVars>>

(***************************************************************************)
(* AiExperienceSurvey (App.js:259-370)                                     *)
(***************************************************************************)
SetResponse(field, v) ==
  /\ currentPage = "aiExperienceSurvey"
  /\ responses' = [responses EXCEPT ![field] = v]
  /\ UNCHANGED <<idField, agreed, formError>>
  /\ UNCHANGED <<mainVars, inputVars, netVars, pollVars, ratingVars>>
  /\ delivered' = NoRequest
  /\ PlanUnchanged
  /\ ratingsSent' = <<>>
  /\ UNCHANGED <<promptRequests, ratingsSaved>>
  /\ UNCHANGED <<timerVars, latencyVars, shuffleVars, trackVars, legacyVars>>

\* mutant: only the first required field is looked at
SurveyIncompleteFirstOnly(r) == r.genAiExperience = ""

\* App.js:275  !responses.genAiExperience || !responses.textToImageExperience
SurveyIncomplete(r) == r.genAiExperience = "" \/ r.textToImageExperience = ""

\* handleSubmit, and getPageProps' onSubmit for 'aiExperienceSurvey', which
\* is () => setCurrentPage('generalInstructions'): the answers it is called
\* with are dropped and no request is issued
SurveySubmit ==
  /\ currentPage = "aiExperienceSurvey"
  /\ IF SurveyIncomplete(responses)
     THEN /\ formError' = "Please complete all required fields"
          /\ UNCHANGED <<currentPage, idField, agreed, responses>>
     ELSE /\ currentPage' = "generalInstructions"
          /\ FreshForm
  /\ UNCHANGED <<prolificId, currentTrialIndex, generatedImages, isLoading, error>>
  /\ UNCHANGED <<inputVars, netVars, pollVars, ratingVars>>
  /\ delivered' = NoRequest
  /\ PlanUnchanged
  /\ ratingsSent' = <<>>
  /\ UNCHANGED <<promptRequests, ratingsSaved>>
  /\ UNCHANGED <<timerVars, latencyVars, shuffleVars, trackVars, legacyVars>>

(***************************************************************************)
(* Instruction pages: getPageProps' onContinue (App.js:1250-1284)          *)
(***************************************************************************)
ContinueTarget(page) ==
  CASE page = "generalInstructions" -> "practiceInstructions"
    [] page = "practiceInstructions" -> "promptInput"
    [] page = "betweenTrials" -> "promptInput"
    [] page = "mainTrialTransition" -> "promptInput"

OnContinue ==
  /\ currentPage \in {"generalInstructions", "practiceInstructions",
                      "betweenTrials", "mainTrialTransition"}
  /\ currentPage' = ContinueTarget(currentPage)
  /\ UNCHANGED <<prolificId, currentTrialIndex, generatedImages, isLoading, error>>
  /\ UNCHANGED <<formVars, inputVars, netVars, pollVars, ratingVars>>
  /\ delivered' = NoRequest
  /\ PlanUnchanged
  /\ ratingsSent' = <<>>
  /\ UNCHANGED <<promptRequests, ratingsSaved>>
  /\ UNCHANGED <<timerVars, latencyVars, shuffleVars, trackVars, legacyVars>>

(***************************************************************************)
(* pollGenerationStatus (App.js:852-925)                                   *)
(***************************************************************************)
\* mutant: the bound is tested one attempt too late
PollTimedOutLate(a) == a > maxAttempts

\* App.js:859  if (attempts >= maxAttempts)
PollTimedOut(a) == a >= maxAttempts

\* poll(): App.js:858-871, up to the first await.  `page` is the page the
\* caller leaves currentPage at if poll() does not change it.
Poll(page) ==
  IF PollTimedOut(attempts)
  THEN /\ currentPage' = "noImages"
       /\ pollState' = "done"
       /\ UNCHANGED <<attempts, statusRequests>>
  ELSE /\ currentPage' = page
       /\ attempts' = attempts + 1
       /\ statusRequests' = statusRequests + 1
       /\ pollState' = "status"

\* mutant: the first poll() is put off like the later ones
PollGenerationStatusDeferred ==
  /\ currentPage' = "processing"
  /\ attempts' = 0
  /\ pollState' = "sleeping"
  /\ UNCHANGED statusRequests

\* pollGenerationStatus() up to its first await (App.js:852-871, 918): a
\* closure of its own with attempts = 0, then poll()
PollGenerationStatus ==
  IF PollTimedOut(0)
  THEN /\ currentPage' = "noImages"
       /\ pollState' = "done"
       /\ attempts' = 0
       /\ UNCHANGED statusRequests
  ELSE /\ currentPage' = "processing"
       /\ attempts' = 1
       /\ statusRequests' = statusRequests + 1
       /\ pollState' = "status"

\* mutant: the last trial is detected one trial early
HandleNextTrialEarlyEnd(idx) ==
  LET nextTrialIndex == idx + 1 IN
  IF idx = 0
  THEN /\ currentTrialIndex' = nextTrialIndex
       /\ currentPage' = "mainTrialTransition"
       /\ UNCHANGED pollVars
  ELSE IF nextTrialIndex >= TotalTrials - 1
  THEN /\ UNCHANGED currentTrialIndex
       /\ PollGenerationStatus
  ELSE /\ currentTrialIndex' = nextTrialIndex
       /\ currentPage' = "betweenTrials"
       /\ UNCHANGED pollVars

(***************************************************************************)
(* handleNextTrial (App.js:941-955), called with the currentTrialIndex of  *)
(* the render whose closure runs it.  Its setIsLoading(true) is always     *)
(* followed by the caller's finally { setIsLoading(false) }.               *)
(***************************************************************************)
HandleNextTrial(idx) ==
  LET nextTrialIndex == idx + 1 IN
  IF idx = 0
  THEN /\ currentTrialIndex' = nextTrialIndex
       /\ currentPage' = "mainTrialTransition"
       /\ UNCHANGED pollVars
  ELSE IF nextTrialIndex >= TotalTrials
  THEN /\ UNCHANGED currentTrialIndex
       /\ PollGenerationStatus
  ELSE /\ currentTrialIndex' = nextTrialIndex
       /\ currentPage' = "betweenTrials"
       /\ UNCHANGED pollVars

(***************************************************************************)
(* PromptInput (App.js:572-729)                                            *)
(***************************************************************************)
\* handlePromptChange (App.js:621-631); the inputs are rendered only while
\* !isTimeUp.  React flushes pending effects before it dispatches a user
\* event, so the handler runs with promptsRef in step with prompts.
HandlePromptChange(index, value) ==
  /\ currentPage = "promptInput"
  /\ ~isTimeUp
  /\ promptsRef = prompts
  /\ index \in 1..Len(prompts)
  /\ LET newPrompts == [prompts EXCEPT ![index] = value]
         pushed == IF index = Len(prompts) /\ Trim(value) # ""
                   THEN Append(newPrompts, "") ELSE newPrompts
     IN /\ Len(pushed) <= MaxPrompts
        /\ prompts' = pushed
  /\ UNCHANGED <<promptsRef, isTimeUp, selectedPrompt, inputError, hasSubmitted>>
  /\ UNCHANGED <<mainVars, formVars, netVars, pollVars, ratingVars>>
  /\ delivered' = NoRequest
  /\ PlanUnchanged
  /\ ratingsSent' = <<>>
  /\ UNCHANGED <<promptRequests, ratingsSaved>>
  /\ UNCHANGED <<timerVars, latencyVars, shuffleVars, trackVars, legacyVars>>

\* useEffect(() => { promptsRef.current = prompts }, [prompts]) (App.js:586-588)
PromptsRefEffect ==
  /\ currentPage = "promptInput"
  /\ promptsRef # prompts
  /\ promptsRef' = prompts
  /\ UNCHANGED <<prompts, isTimeUp, selectedPrompt, inputError, hasSubmitted>>
  /\ UNCHANGED <<mainVars, formVars, netVars, pollVars, ratingVars>>
  /\ delivered' = NoRequest
  /\ PlanUnchanged
  /\ ratingsSent' = <<>>
  /\ UNCHANGED <<promptRequests, ratingsSaved>>
  /\ UNCHANGED <<timerVars, latencyVars, shuffleVars, trackVars, legacyVars>>

\* mutant: the copy of the list left by the last effect that ran is read
RefUnflushed(ref, list) == ref

\* promptsRef.current as App.js:599 reads it.  The effect that copies
\* prompts into the ref (App.js:586-588) may still be pending when the
\* interval callback starts, but it has run by the time of the read: React
\* runs the pending passive effects before it processes a state update made
\* outside its own event handlers, and setIsWarning / setTimeLeft(0)
\* (App.js:189, 194) and setIsTimeUp(true) (App.js:598) come before the read.
RefAtCompletion(ref, list) == list

\* handleTimerComplete (App.js:597-611), the Timer's onComplete, called
\* from a setInterval callback
HandleTimerComplete ==
  /\ currentPage = "promptInput"
  /\ ~isTimeUp
  /\ isTimeUp' = TRUE
  /\ LET current == RefAtCompletion(promptsRef, prompts)
         filteredPrompts == FilterPrompts(current)
     IN /\ promptsRef' = current
        /\ IF Len(filteredPrompts) = 0
           THEN /\ inputError' = "You did not provide any prompt."
                /\ prompts' = <<>>
                /\ UNCHANGED selectedPrompt
           ELSE /\ prompts' = filteredPrompts
                /\ selectedPrompt' = Null
                /\ UNCHANGED inputError
  /\ UNCHANGED hasSubmitted
  /\ UNCHANGED <<mainVars, formVars, netVars, pollVars, ratingVars>>
  /\ delivered' = [endpoint |-> "timer", effectPending |-> promptsRef # prompts]
  /\ PlanUnchanged
  /\ ratingsSent' = <<>>
  /\ UNCHANGED <<promptRequests, ratingsSaved>>
  /\ UNCHANGED <<timerVars, latencyVars, shuffleVars, trackVars, legacyVars>>

\* mutant: a prompt can be picked while the inputs are still open
SelectionAllowedAlways(timeUp) == TRUE

\* App.js:634  if (!isTimeUp) return; the buttons are rendered only when
\* isTimeUp too (App.js:685, 701)
SelectionAllowed(timeUp) == timeUp

\* handlePromptSelection (App.js:633-637), called with the text of one
\* entry of prompts
HandlePromptSelection(index) ==
  /\ currentPage = "promptInput"
  /\ SelectionAllowed(isTimeUp)
  /\ promptsRef = prompts
  /\ index \in 1..Len(prompts)
  /\ selectedPrompt' = prompts[index]
  /\ inputError' = Null
  /\ UNCHANGED <<prompts, promptsRef, isTimeUp, hasSubmitted>>
  /\ UNCHANGED <<mainVars, formVars, netVars, pollVars, ratingVars>>
  /\ delivered' = NoRequest
  /\ PlanUnchanged
  /\ ratingsSent' = <<>>
  /\ UNCHANGED <<promptRequests, ratingsSaved>>
  /\ UNCHANGED <<timerVars, latencyVars, shuffleVars, trackVars, legacyVars>>

\* mutant: the condition sequence is read from its other end
getCurrentTrialMirrored(idx) ==
  IF idx = 0
  THEN [theme |-> PRACTICE_THEME, condition |-> "practice"]
  ELSE [theme |-> trialThemes[idx + 1],
        condition |-> conditions.sequence[TotalTrials - idx].id]

\* mutant: index 0 is not treated apart
getCurrentTrialNoPractice(idx) ==
  [theme |-> trialThemes[idx + 1],
   condition |-> conditions.sequence[IF idx = 0 THEN 1 ELSE idx].id]

\* getCurrentTrial (App.js:793-804) for currentTrialIndex = idx; arrays are
\* 0-based in the code and 1-based here
getCurrentTrial(idx) ==
  IF idx = 0
  THEN [theme |-> PRACTICE_THEME, condition |-> "practice"]
  ELSE [theme |-> trialThemes[idx + 1],
        condition |-> conditions.sequence[idx].id]

\* mutant: every instruction screen reads the first slot of the sequence
InstructionConditionFirstSlot(page, idx) == conditions.sequence[1].id

\* the condition whose instructions the screen before an input phase shows:
\* getPageProps hands MainTrialTransition conditions.sequence[0].id, looked
\* up in CONDITIONS (App.js:1279, 741), and BetweenTrialInstructions
\* conditions.sequence[currentTrialIndex - 1] itself (App.js:1270, 973)
InstructionCondition(page, idx) ==
  IF page = "mainTrialTransition"
  THEN CONDITIONS[conditions.sequence[1].id].id
  ELSE conditions.sequence[idx].id

\* the body of the save-prompt request (App.js:823-834), timing left out
Submission(submittedPrompts, selected) ==
  [endpoint |-> "save-prompt",
   trialIndex |-> currentTrialIndex,
   condition |-> getCurrentTrial(currentTrialIndex).condition,
   theme |-> getCurrentTrial(currentTrialIndex).theme,
   conditionOrder |-> conditions.order,
   prompts |-> submittedPrompts,
   selectedPrompt |-> selected,
   isPractice |-> (currentTrialIndex = 0)]

\* handlePromptSubmission (App.js:806-850) up to its first await
HandlePromptSubmission(submittedPrompts, selected) ==
  /\ error' = Null
  /\ IF Len(submittedPrompts) = 0
     THEN \* handleNextTrial(); return; finally setIsLoading(false)
          /\ HandleNextTrial(currentTrialIndex)
          /\ isLoading' = FALSE
          /\ promptRequests' = 0
          /\ UNCHANGED netVars
     ELSE IF selected = Null
     THEN /\ isLoading' = FALSE
          /\ UNCHANGED <<currentPage, currentTrialIndex, netVars, pollVars>>
          /\ UNCHANGED promptRequests
     ELSE /\ isLoading' = TRUE
          /\ savePrompt' = Submission(submittedPrompts, selected)
          /\ promptRequests' = promptRequests + 1
          /\ UNCHANGED <<currentPage, currentTrialIndex, pollVars>>

\* mutant: the Continue button is rendered in both branches
SubmitRenderedAlways(timeUp) == TRUE

\* the Continue button is in the isTimeUp branch of the render
\* (App.js:685, 699, 717)
SubmitRendered(timeUp) == timeUp

\* mutant: the latch is not looked at
AlreadySubmittedIgnored(latch) == FALSE

\* App.js:640  if (hasSubmitted) return
AlreadySubmitted(latch) == latch

\* handleSubmit (App.js:639-662), the onClick of the Continue button
HandleSubmit ==
  /\ currentPage = "promptInput"
  /\ SubmitRendered(isTimeUp)
  /\ promptsRef = prompts
  /\ LET validPrompts == FilterPrompts(promptsRef) IN
     IF AlreadySubmitted(hasSubmitted)
     THEN UNCHANGED <<mainVars, inputVars, netVars, pollVars, promptRequests>>
     ELSE IF selectedPrompt = Null /\ Len(validPrompts) > 0
     THEN /\ inputError' = "Please select one of your prompts before continuing."
          /\ UNCHANGED <<prompts, promptsRef, isTimeUp, selectedPrompt, hasSubmitted>>
          /\ UNCHANGED <<mainVars, netVars, pollVars, promptRequests>>
     ELSE /\ HandlePromptSubmission(validPrompts, selectedPrompt)
          /\ IF currentPage' = "promptInput"
             THEN /\ hasSubmitted' = TRUE
                  /\ UNCHANGED <<prompts, promptsRef, isTimeUp, selectedPrompt,
                                 inputError>>
             ELSE FreshPromptInput
          /\ UNCHANGED <<prolificId, generatedImages>>
  /\ UNCHANGED <<formVars, ratingVars>>
  /\ delivered' = NoRequest
  /\ PlanUnchanged
  /\ ratingsSent' = <<>>
  /\ UNCHANGED ratingsSaved
  /\ UNCHANGED <<timerVars, latencyVars, shuffleVars, trackVars, legacyVars>>

\* mutant: response.ok is not looked at
SaveSucceededUnchecked(outcome) == outcome # "networkError"

\* the answer to the save-prompt request: handlePromptSubmission after its
\* await (App.js:836-849).  outcome: "ok", "notOk" (response.ok false) or
\* "networkError" (fetch rejects).
SaveSucceeded(outcome) == outcome = "ok"

SavePromptResponse(outcome) ==
  /\ savePrompt # NoRequest
  /\ delivered' = [endpoint |-> "save-prompt", outcome |-> outcome,
                      trialIndex |-> savePrompt.trialIndex]
  /\ savePrompt' = NoRequest
  /\ isLoading' = FALSE
  /\ IF SaveSucceeded(outcome)
     THEN /\ HandleNextTrial(savePrompt.trialIndex)
          /\ FreshPromptInput
          /\ promptRequests' = 0
          /\ UNCHANGED error
     ELSE /\ error' = IF outcome = "notOk" THEN "Failed to save prompt"
                      ELSE "Failed to fetch"
          /\ UNCHANGED <<currentPage, currentTrialIndex, inputVars, pollVars>>
          /\ UNCHANGED promptRequests
  /\ UNCHANGED <<prolificId, generatedImages>>
  /\ UNCHANGED <<formVars, ratingVars>>
  /\ PlanUnchanged
  /\ ratingsSent' = <<>>
  /\ UNCHANGED ratingsSaved
  /\ UNCHANGED <<timerVars, latencyVars, shuffleVars, trackVars, legacyVars>>

(***************************************************************************)
(* ImageRatingInterface (App.js:1047-1203).  The component is declared     *)
(* inside MainApp's body, so every render of MainApp makes a new component *)
(* type: React unmounts the old instance and mounts a new one, whose       *)
(* effect (App.js:1052-1060) shuffles the images again and resets ratings. *)
(***************************************************************************)
UnratedFor(images) ==
  [i \in 1..Len(images) |-> [creativity |-> NoRating, intention |-> NoRating]]

MountImageRating(images) ==
  /\ randomizedImages' \in Orderings(images)
  /\ ratings' = UnratedFor(images)
  /\ ratingError' = Null

FreshRating ==
  /\ randomizedImages' = <<>>
  /\ ratings' = <<>>
  /\ ratingError' = Null

\* mutant: all_failed falls into the pending case
StatusIsPendingOrFailed(outcome) == outcome \in {"pending", "all_failed"}

\* App.js:907  case 'pending'
StatusIsPending(outcome) == outcome = "pending"

\* mutant: the terminal cases schedule the next poll too
PollChainRetrying == "sleeping"

\* where the poll chain stands after a case of the switch that only calls
\* setCurrentPage('noImages') (App.js:901-905, 912-914): nothing is scheduled
PollChainEnded == "done"

\* poll() after the status answer (App.js:871-915).  outcome is the status
\* of the answer, or "networkError" when fetch / response.json() rejects.
StatusResponse(outcome) ==
  /\ pollState = "status"
  /\ delivered' = [endpoint |-> "check-generation-status",
                      outcome |-> outcome, attempt |-> attempts]
  /\ CASE outcome = "ready" ->
            \* fetch(get-all-images)
            /\ pollState' = "images"
            /\ UNCHANGED <<currentPage, isLoading, error>>
       [] StatusIsPending(outcome) ->
            \* setTimeout(poll, pollInterval)
            /\ pollState' = "sleeping"
            /\ UNCHANGED <<currentPage, isLoading, error>>
       [] outcome = "networkError" ->
            \* only the first poll() is awaited inside the try of
            \* pollGenerationStatus; a poll() started by setTimeout rejects
            \* with nobody to catch it
            IF attempts = 1
            THEN /\ error' = "Failed to load images"
                 /\ isLoading' = FALSE
                 /\ currentPage' = "noImages"
                 /\ pollState' = "done"
            ELSE /\ pollState' = "unhandledRejection"
                 /\ UNCHANGED <<currentPage, isLoading, error>>
       [] OTHER ->
            \* 'no_trials', 'all_failed', default
            /\ currentPage' = "noImages"
            /\ pollState' = PollChainEnded
            /\ UNCHANGED <<isLoading, error>>
  /\ UNCHANGED <<prolificId, currentTrialIndex, generatedImages>>
  /\ UNCHANGED <<attempts, statusRequests, savePrompt>>
  /\ UNCHANGED <<formVars, inputVars, ratingVars>>
  /\ PlanUnchanged
  /\ ratingsSent' = <<>>
  /\ UNCHANGED <<promptRequests, ratingsSaved>>
  /\ UNCHANGED <<timerVars, latencyVars, shuffleVars, trackVars, legacyVars>>

\* the setTimeout(poll, 5000) callback
PollTimeout ==
  /\ pollState = "sleeping"
  /\ Poll(currentPage)
  /\ UNCHANGED <<prolificId, currentTrialIndex, generatedImages, isLoading, error>>
  /\ UNCHANGED <<formVars, inputVars, netVars, ratingVars>>
  /\ delivered' = NoRequest
  /\ PlanUnchanged
  /\ ratingsSent' = <<>>
  /\ UNCHANGED <<promptRequests, ratingsSaved>>
  /\ UNCHANGED <<timerVars, latencyVars, shuffleVars, trackVars, legacyVars>>

\* mutant: the length of the batch is not looked at
BatchUsableUnchecked(outcome, batch) == outcome = "ok"

\* App.js:886  imageData.images && imageData.images.length > 0
BatchUsable(outcome, batch) == outcome = "ok" /\ Len(batch) > 0

\* case 'ready' after the image fetch (App.js:876-899).  outcome: "ok" (the
\* answer carries `batch`), "missing" (ok, no images field), "notOk",
\* "networkError".
ImagesResponse(outcome, batch) ==
  /\ pollState = "images"
  /\ pollState' = "done"
  /\ delivered' = [endpoint |-> "get-all-images", outcome |-> outcome,
                      images |-> IF outcome = "ok" THEN batch ELSE <<>>]
  /\ IF BatchUsable(outcome, batch)
     THEN /\ generatedImages' = batch
          /\ currentPage' = "imageRating"
          /\ isLoading' = FALSE
          /\ MountImageRating(batch)
     ELSE /\ currentPage' = "noImages"
          /\ UNCHANGED <<generatedImages, isLoading>>
          /\ UNCHANGED <<randomizedImages, ratings, ratingError>>
  /\ UNCHANGED <<prolificId, currentTrialIndex, error, ratingReqs>>
  /\ UNCHANGED <<attempts, statusRequests, savePrompt>>
  /\ UNCHANGED <<formVars, inputVars>>
  /\ PlanUnchanged
  /\ ratingsSent' = <<>>
  /\ UNCHANGED <<promptRequests, ratingsSaved>>
  /\ UNCHANGED <<timerVars, latencyVars, shuffleVars, trackVars, legacyVars>>

\* handleRatingChange (App.js:1080-1089)
HandleRatingChange(imageIndex, type, value) ==
  /\ currentPage = "imageRating"
  /\ imageIndex \in 1..Len(ratings)
  /\ ratings' = [ratings EXCEPT ![imageIndex][type] = value]
  /\ UNCHANGED <<randomizedImages, ratingError, ratingReqs>>
  /\ UNCHANGED <<mainVars, formVars, inputVars, netVars, pollVars>>
  /\ delivered' = NoRequest
  /\ PlanUnchanged
  /\ ratingsSent' = <<>>
  /\ UNCHANGED <<promptRequests, ratingsSaved>>
  /\ UNCHANGED <<timerVars, latencyVars, shuffleVars, trackVars, legacyVars>>

\* mutant: only the creativity score is looked at
MissingRatingsCreativityOnly(rs) ==
  \E i \in 1..Len(rs) : rs[i].creativity = NoRating

\* App.js:1067-1069
MissingRatings(rs) ==
  \E i \in 1..Len(rs) :
     rs[i].creativity = NoRating \/ rs[i].intention = NoRating

\* mutant: the records are built over the images as fetched
SubmittedImagesAsFetched(shuffled, fetched) == fetched

\* App.js:1076  onSubmit(ratings, randomizedImages)
SubmittedImages(shuffled, fetched) == shuffled

\* formattedRatings (App.js:1006-1015).  An image is known by its
\* trialIndex; theme, condition and prompt are read from the same image
\* object as trialIndex.
FormattedRatings(rs, images) ==
  [index \in 1..Len(images) |->
     [trialIndex |-> images[index],
      creativityRating |-> rs[index].creativity,
      intentionRating |-> rs[index].intention]]

\* ImageRatingInterface.handleSubmit (App.js:1066-1077) and
\* handleRatingSubmission up to its first await (App.js:1001-1021)
RatingHandleSubmit ==
  /\ currentPage = "imageRating"
  /\ IF MissingRatings(ratings)
     THEN /\ ratingError' =
               "Please provide both ratings for all images before continuing."
          /\ UNCHANGED <<randomizedImages, ratings, ratingReqs>>
          /\ UNCHANGED <<isLoading, error>>
          /\ ratingsSent' = <<>>
     ELSE /\ Len(ratingReqs) < MaxInFlight
          /\ isLoading' = TRUE
          /\ error' = Null
          /\ ratingsSent' =
               FormattedRatings(ratings,
                                SubmittedImages(randomizedImages, generatedImages))
          /\ ratingReqs' = Append(ratingReqs, "save-ratings")
          /\ MountImageRating(generatedImages)
  /\ UNCHANGED <<currentPage, prolificId, currentTrialIndex, generatedImages>>
  /\ UNCHANGED <<formVars, inputVars, savePrompt, pollVars>>
  /\ delivered' = NoRequest
  /\ PlanUnchanged
  /\ UNCHANGED <<promptRequests, ratingsSaved>>
  /\ UNCHANGED <<timerVars, latencyVars, shuffleVars, trackVars, legacyVars>>

RemoveAt(s, k) == [i \in 1..(Len(s) - 1) |-> IF i < k THEN s[i] ELSE s[i + 1]]

\* mutant: completionResponse.ok is not looked at
CompletionMarkedUnchecked(outcome) == outcome # "networkError"

\* App.js:1035  completionResponse.ok
CompletionMarked(outcome) == outcome = "ok"

\* handleRatingSubmission after an await (App.js:1023-1044): the answer to
\* request k, a save-ratings or a mark-completion request.  The backend
\* has kept the batch of a save-ratings request it answers with ok.
RatingResponse(k, outcome) ==
  /\ k \in 1..Len(ratingReqs)
  /\ delivered' = [endpoint |-> ratingReqs[k], outcome |-> outcome]
  /\ ratingsSaved' = (ratingsSaved
                        \/ (ratingReqs[k] = "save-ratings" /\ outcome = "ok"))
  /\ IF outcome = "ok" /\ ratingReqs[k] = "save-ratings"
     THEN \* fetch(mark-completion)
          /\ ratingReqs' = [ratingReqs EXCEPT ![k] = "mark-completion"]
          /\ UNCHANGED <<currentPage, isLoading, error>>
          /\ UNCHANGED <<randomizedImages, ratings, ratingError>>
     ELSE /\ ratingReqs' = RemoveAt(ratingReqs, k)
          /\ isLoading' = FALSE
          /\ IF ratingReqs[k] = "mark-completion" /\ CompletionMarked(outcome)
             THEN /\ currentPage' = "thankYou"
                  /\ UNCHANGED error
                  /\ FreshRating
             ELSE /\ error' = IF outcome = "networkError" THEN "Failed to fetch"
                              ELSE IF ratingReqs[k] = "save-ratings"
                              THEN "Failed to save ratings"
                              ELSE "Failed to mark completion"
                  /\ UNCHANGED currentPage
                  /\ IF currentPage = "imageRating"
                     THEN MountImageRating(generatedImages)
                     ELSE UNCHANGED <<randomizedImages, ratings, ratingError>>
  /\ UNCHANGED <<prolificId, currentTrialIndex, generatedImages>>
  /\ UNCHANGED <<formVars, inputVars, savePrompt, pollVars>>
  /\ PlanUnchanged
  /\ ratingsSent' = <<>>
  /\ UNCHANGED promptRequests
  /\ UNCHANGED <<timerVars, latencyVars, shuffleVars, trackVars, legacyVars>>

\* the error message the current page renders.  MainApp puts its own error
\* state in baseProps (App.js:1223) and renders none itself (App.js:1298-
\* 1308); PromptInput and ImageRatingInterface do not take the error prop
\* (App.js:572, 1047) and render their own error state (App.js:669, 1192),
\* the forms theirs; the other pages render no error.
VisibleError ==
  CASE currentPage = "promptInput" -> inputError
    [] currentPage = "imageRating" -> ratingError
    [] currentPage \in {"consent", "aiExperienceSurvey"} -> formError
    [] OTHER -> Null

(***************************************************************************)
(* The application.                                                        *)
(***************************************************************************)
Outcomes == {"ok", "notOk", "networkError"}
StatusOutcomes == {"ready", "pending", "no_trials", "all_failed", "unknown",
                   "networkError"}

AppNext ==
  \/ \E v \in IdValues : SetId(v)
  \/ SubmitProlificId
  \/ \E v \in BOOLEAN : SetAgreed(v)
  \/ ConsentSubmit
  \/ InternetContinue
  \/ \E f \in {"genAiExperience", "textToImageExperience"}, v \in SurveyValues :
        SetResponse(f, v)
  \/ SurveySubmit
  \/ OnContinue
  \/ \E i \in 1..MaxPrompts, v \in PromptValues : HandlePromptChange(i, v)
  \/ PromptsRefEffect
  \/ HandleTimerComplete
  \/ \E i \in 1..MaxPrompts : HandlePromptSelection(i)
  \/ HandleSubmit
  \/ \E o \in Outcomes : SavePromptResponse(o)
  \/ \E o \in StatusOutcomes : StatusResponse(o)
  \/ PollTimeout
  \/ \E o \in Outcomes \cup {"missing"}, b \in Batches : ImagesResponse(o, b)
  \/ \E i \in ImageIds, t \in {"creativity", "intention"}, v \in RatingValues :
        HandleRatingChange(i, t, v)
  \/ RatingHandleSubmit
  \/ \E k \in 1..MaxInFlight, o \in Outcomes : RatingResponse(k, o)

(***************************************************************************)
(* Timer (App.js:177-223) against the clock Date.now() reads, in ms.       *)
(* timerState: "idle" (not rendered yet), "rendered" (first render done,   *)
(* mount effect pending), "mounted", "unmounted" (effect cleanup has run). *)
(* completions counts the calls of onComplete, firedAt is the clock at the *)
(* last call, tickRan says whether the interval callback has run.          *)
(***************************************************************************)
MaxClock == MsPerSecond * MaxSeconds + MaxEffectDelay + 2 * TickMs
\* the clock is observed every 50 ms
ClockSteps == {50, TickMs, 500}

TimerInit ==
  /\ now = 0
  /\ timerState = "idle"
  /\ seconds = 0
  /\ endTimeRef = 0
  /\ hasCompletedRef = FALSE
  /\ intervalActive = FALSE
  /\ intervalArmedAt = 0
  /\ timeLeft = 0
  /\ isWarning = FALSE
  /\ completions = 0
  /\ firedAt = 0
  /\ tickRan = FALSE

\* Math.ceil(a / b) for b > 0
CeilDiv(a, b) == -((-a) \div b)

\* mutant: Math.floor instead of Math.ceil
RemainingFloor(endTime, t) == (endTime - t) \div MsPerSecond

\* App.js:186  Math.ceil((endTimeRef.current - now) / 1000)
Remaining(endTime, t) == CeilDiv(endTime - t, MsPerSecond)

\* mutant: the effect returns no cleanup
CleanupForgotten(active) == active

\* App.js:204  return () => clearInterval(timerInterval): whether the
\* interval is still active after the cleanup
CleanupLeavesInterval(active) == FALSE

\* first render: useState(seconds), useRef(Date.now() + seconds * 1000),
\* useRef(false) (App.js:178-181)
TimerRender(d) ==
  /\ timerState = "idle"
  /\ timerState' = "rendered"
  /\ seconds' = d
  /\ timeLeft' = d
  /\ isWarning' = FALSE
  /\ endTimeRef' = now + d * MsPerSecond
  /\ hasCompletedRef' = FALSE
  /\ UNCHANGED <<now, intervalActive, intervalArmedAt, completions, firedAt,
                 tickRan>>
  /\ UNCHANGED <<appVars, planVars, latencyVars, shuffleVars, trackVars>>
  /\ UNCHANGED legacyVars

\* the mount effect: setInterval(..., 100) (App.js:183-184, 202)
TimerEffect ==
  /\ timerState = "rendered"
  /\ timerState' = "mounted"
  /\ intervalActive' = TRUE
  /\ intervalArmedAt' = now
  /\ UNCHANGED <<now, seconds, endTimeRef, hasCompletedRef, timeLeft,
                 isWarning, completions, firedAt, tickRan>>
  /\ UNCHANGED <<appVars, planVars, latencyVars, shuffleVars, trackVars>>
  /\ UNCHANGED legacyVars

\* the interval callback (App.js:184-201).  The browser runs it no earlier
\* than 100 ms after setInterval and then at any later instants, possibly
\* late or back to back, as long as the interval has not been cleared.
Tick ==
  /\ intervalActive
  /\ now >= intervalArmedAt + TickMs
  /\ tickRan' = TRUE
  /\ LET remaining == Remaining(endTimeRef, now) IN
     /\ isWarning' = IF remaining <= WARNING_TIME THEN TRUE ELSE isWarning
     /\ IF remaining <= 0
        THEN /\ intervalActive' = FALSE
             /\ timeLeft' = 0
             /\ IF ~hasCompletedRef
                THEN /\ hasCompletedRef' = TRUE
                     /\ completions' = completions + 1
                     /\ firedAt' = now
                ELSE UNCHANGED <<hasCompletedRef, completions, firedAt>>
        ELSE /\ timeLeft' = remaining
             /\ UNCHANGED <<intervalActive, hasCompletedRef, completions, firedAt>>
  /\ UNCHANGED <<now, timerState, seconds, endTimeRef, intervalArmedAt>>
  /\ UNCHANGED <<appVars, planVars, latencyVars, shuffleVars, trackVars>>
  /\ UNCHANGED legacyVars

\* the owner stops rendering the Timer: the effect cleanup runs (App.js:204)
TimerUnmount ==
  /\ timerState \in {"rendered", "mounted"}
  /\ timerState' = "unmounted"
  /\ intervalActive' = CleanupLeavesInterval(intervalActive)
  /\ UNCHANGED <<now, seconds, endTimeRef, hasCompletedRef, intervalArmedAt,
                 timeLeft, isWarning, completions, firedAt, tickRan>>
  /\ UNCHANGED <<appVars, planVars, latencyVars, shuffleVars, trackVars>>
  /\ UNCHANGED legacyVars

\* time passes; the mount effect follows the first render within
\* MaxEffectDelay
ClockAdvance(dt) ==
  /\ timerState # "idle"
  /\ now + dt <= MaxClock
  /\ timerState = "rendered" => now + dt <= MaxEffectDelay
  /\ now' = now + dt
  /\ UNCHANGED <<timerState, seconds, endTimeRef, hasCompletedRef,
                 intervalActive, intervalArmedAt, timeLeft, isWarning,
                 completions, firedAt, tickRan>>
  /\ UNCHANGED <<appVars, planVars, latencyVars, shuffleVars, trackVars>>
  /\ UNCHANGED legacyVars

TimerNext ==
  \/ \E d \in 0..MaxSeconds : TimerRender(d)
  \/ TimerEffect
  \/ Tick
  \/ TimerUnmount
  \/ \E dt \in ClockSteps : ClockAdvance(dt)

(***************************************************************************)
(* PromptInput's first-keystroke timing (App.js:578-580, 614-619, 644-647) *)
(* against the same clock.  inputPhase: "none" (PromptInput not mounted),  *)
(* "open" (mounted), "reported" (handleSubmit has handed timingData to     *)
(* onSubmit).  Instants and latencies are in ms; the code divides the      *)
(* latency by 1000 before it reports it.                                   *)
(***************************************************************************)
timerOnlyVars == <<timerState, seconds, endTimeRef, hasCompletedRef,
                   intervalActive, intervalArmedAt, timeLeft, isWarning,
                   completions, firedAt, tickRan>>

\* mount: useRef(new Date()), useState(null), useState(false)
PromptInputMount ==
  /\ inputPhase \in {"none", "reported"}
  /\ inputPhase' = "open"
  /\ responseStartRef' = now
  /\ firstKeypressTime' = NoTime
  /\ firstKeypressRecorded' = FALSE
  /\ firstKeyAt' = NoTime
  /\ lastKeyAt' = NoTime
  /\ timeUpAt' = NoTime
  /\ UNCHANGED <<reportedLatency, reportedTotal, now>>
  /\ UNCHANGED <<appVars, planVars, timerOnlyVars, shuffleVars, trackVars>>
  /\ UNCHANGED legacyVars

\* mutant: every keystroke is taken for the first
KeypressIsFirstAlways(recorded) == TRUE

\* App.js:615  if (!firstKeypressRecorded)
KeypressIsFirst(recorded) == ~recorded

\* handleKeyPress (App.js:614-619), the onKeyDown of every prompt field
HandleKeyPress ==
  /\ inputPhase = "open"
  /\ IF KeypressIsFirst(firstKeypressRecorded)
     THEN /\ firstKeypressTime' = now
          /\ firstKeypressRecorded' = TRUE
     ELSE UNCHANGED <<firstKeypressTime, firstKeypressRecorded>>
  /\ firstKeyAt' = IF firstKeyAt = NoTime THEN now ELSE firstKeyAt
  /\ lastKeyAt' = now
  /\ UNCHANGED <<inputPhase, responseStartRef, reportedLatency, now>>
  /\ UNCHANGED <<reportedTotal, timeUpAt>>
  /\ UNCHANGED <<appVars, planVars, timerOnlyVars, shuffleVars, trackVars>>
  /\ UNCHANGED legacyVars

\* timingData.firstKeypressLatency (App.js:645-646)
FirstKeypressLatency(keypressTime, responseStart) ==
  IF keypressTime # NoTime THEN keypressTime - responseStart ELSE NoTime

\* handleTimerComplete (App.js:597-611) as far as timing goes: isTimeUp is
\* set, the fields give way to the selection list
TimeUp ==
  /\ inputPhase = "open"
  /\ inputPhase' = "selecting"
  /\ timeUpAt' = now
  /\ UNCHANGED <<responseStartRef, firstKeypressTime, firstKeypressRecorded,
                 reportedLatency, reportedTotal, firstKeyAt, lastKeyAt, now>>
  /\ UNCHANGED <<appVars, planVars, timerOnlyVars, shuffleVars, trackVars>>
  /\ UNCHANGED legacyVars

\* timingData.totalResponseTime (App.js:643, 647-648), t being the
\* new Date() of handleSubmit
TotalResponseTime(timeUp, t, responseStart) ==
  IF timeUp THEN t - responseStart ELSE NoTime

\* handleSubmit (App.js:639-662) as far as timingData goes; its button is
\* rendered once isTimeUp is set
ReportTiming ==
  /\ inputPhase = "selecting"
  /\ inputPhase' = "reported"
  /\ reportedLatency' = FirstKeypressLatency(firstKeypressTime, responseStartRef)
  /\ reportedTotal' = TotalResponseTime(TRUE, now, responseStartRef)
  /\ UNCHANGED <<responseStartRef, firstKeypressTime, firstKeypressRecorded,
                 firstKeyAt, lastKeyAt, timeUpAt, now>>
  /\ UNCHANGED <<appVars, planVars, timerOnlyVars, shuffleVars, trackVars>>
  /\ UNCHANGED legacyVars

\* instants at which the phase's events are placed, a quarter second apart
LatencySteps == {250, 500}

\* time passes
Elapse(dt) ==
  /\ now + dt <= MaxClock
  /\ now' = now + dt
  /\ UNCHANGED <<appVars, planVars, timerOnlyVars, latencyVars>>
  /\ UNCHANGED <<shuffleVars, trackVars, legacyVars>>

LatencyNext ==
  \/ PromptInputMount
  \/ HandleKeyPress
  \/ TimeUp
  \/ ReportTiming
  \/ \E dt \in LatencySteps : Elapse(dt)

(***************************************************************************)
(* shuffleArray (App.js:73-80) as the trialThemes initializer calls it     *)
(* (App.js:788-791), one loop iteration per step.  Indices are 0-based as  *)
(* in the code; At reads a 0-based slot of a sequence.                     *)
(***************************************************************************)
At(s, k) == s[k + 1]

\* mutant: slot j is swapped with slot 0 instead of slot i
SwapFromFront(s, i, j) == [s EXCEPT ![1] = At(s, j), ![j + 1] = At(s, 0)]

\* mutant: the slot is overwritten instead of swapped
SwapOverwriting(s, i, j) == [s EXCEPT ![i + 1] = At(s, j)]

\* App.js:77  [newArray[i], newArray[j]] = [newArray[j], newArray[i]]
Swap(s, i, j) == [s EXCEPT ![i + 1] = At(s, j), ![j + 1] = At(s, i)]

\* the loop of shuffleArray (App.js:75-78) from index i down, js being the
\* values of j still to be drawn
RECURSIVE ShuffleFrom(_, _, _)
ShuffleFrom(arr, i, js) ==
  IF i <= 0 THEN arr
  ELSE ShuffleFrom(Swap(arr, i, Head(js)), i - 1, Tail(js))

\* shuffleArray (App.js:73-80) as a function of the values drawn
shuffleArray(arr, js) == ShuffleFrom(arr, Len(arr) - 1, js)

\* the sequences of draws of one call on n entries: j in 0..i for
\* i = n - 1 down to 1 (App.js:75-76)
DrawSequences(n) ==
  {js \in [1..(n - 1) -> 0..(n - 1)] : \A k \in 1..(n - 1) : js[k] <= n - k}

\* const newArray = [...array]; let i = newArray.length - 1
ShuffleStart ==
  /\ shuffleState = "idle"
  /\ shuffleState' = "loop"
  /\ newArray' = array
  /\ shuffleIndex' = Len(array) - 1
  /\ draws' = <<>>
  /\ UNCHANGED <<array, drawnThemes>>
  /\ UNCHANGED <<appVars, planVars, timerVars, latencyVars, trackVars>>
  /\ UNCHANGED legacyVars

\* one iteration, i > 0; j is Math.floor(Math.random() * (i + 1))
ShuffleStep(j) ==
  /\ shuffleState = "loop"
  /\ shuffleIndex > 0
  /\ j \in 0..shuffleIndex
  /\ newArray' = Swap(newArray, shuffleIndex, j)
  /\ shuffleIndex' = shuffleIndex - 1
  /\ draws' = Append(draws, j)
  /\ UNCHANGED <<array, shuffleState, drawnThemes>>
  /\ UNCHANGED <<appVars, planVars, timerVars, latencyVars, trackVars>>
  /\ UNCHANGED legacyVars

\* the loop ends; return [PRACTICE_THEME, ...shuffleArray(themes)]
ShuffleReturn ==
  /\ shuffleState = "loop"
  /\ shuffleIndex <= 0
  /\ shuffleState' = "returned"
  /\ drawnThemes' = <<PRACTICE_THEME>> \o newArray
  /\ UNCHANGED <<array, newArray, shuffleIndex, draws>>
  /\ UNCHANGED <<appVars, planVars, timerVars, latencyVars, trackVars>>
  /\ UNCHANGED legacyVars

ShuffleNext ==
  \/ ShuffleStart
  \/ \E j \in 0..(Len(TRIAL_THEMES) - 1) : ShuffleStep(j)
  \/ ShuffleReturn

(***************************************************************************)
(* usePageTracking (App.js:89-114) under MainApp's phase changes, against  *)
(* the clock.  The phase changes are the ones of the application with the  *)
(* work inside a phase left out; a handler's state updates reach the hook  *)
(* in one render.                                                          *)
(***************************************************************************)
\* getPageName (App.js:759-767); no page is named promptSelection_trial_*
getPageName(page, idx) ==
  IF page = "promptInput"
  THEN "Trial " \o ToString(idx) \o " Input Phase"
  ELSE page

\* mutant: the start instant is left out
DurationSinceMount(t, start) == t

\* App.js:95  Date.now() - startTimeRef.current
Duration(t, start) == t - start

\* the effect of usePageTracking after a render with the new currentPage,
\* currentTrialIndex and prolificId (App.js:92-113)
UsePageTracking ==
  LET name == getPageName(currentPage', currentTrialIndex') IN
  IF name = previousPageRef
  THEN /\ timingSent' = <<>>
       /\ UNCHANGED <<previousPageRef, startTimeRef, timingInFlight>>
  ELSE /\ IF previousPageRef # "" /\ prolificId' # ""
          THEN /\ timingSent' = <<[page |-> previousPageRef,
                                   duration |-> Duration(now, startTimeRef)]>>
               /\ timingInFlight' = IF timingInFlight < MaxTimingInFlight
                                    THEN timingInFlight + 1 ELSE timingInFlight
          ELSE /\ timingSent' = <<>>
               /\ UNCHANGED timingInFlight
       /\ startTimeRef' = now
       /\ previousPageRef' = name

\* what a phase change leaves alone here
TrackFrame ==
  /\ enteredAt' = now
  /\ UNCHANGED <<generatedImages, isLoading, error>>
  /\ UNCHANGED <<formVars, inputVars, netVars, delivered, ratingVars>>
  /\ UNCHANGED <<promptRequests, ratingsSaved, ratingsSent>>
  /\ UNCHANGED <<planVars, timerVars, latencyVars, shuffleVars, legacyVars>>

\* getPageProps' onSubmit for 'prolificId' (App.js:1230-1233)
TrackSubmitId(v) ==
  /\ currentPage = "prolificId"
  /\ Trim(v) # ""
  /\ prolificId' = v
  /\ currentPage' = "consent"
  /\ UNCHANGED <<currentTrialIndex, pollVars>>
  /\ UsePageTracking
  /\ TrackFrame

\* the setCurrentPage calls of getPageProps (App.js:1238-1284), of the
\* poller (App.js:889-914) and of handleRatingSubmission (App.js:1038)
TrackTargets(page) ==
  CASE page = "consent" -> {"internetUsage"}
    [] page = "internetUsage" -> {"aiExperienceSurvey"}
    [] page = "aiExperienceSurvey" -> {"generalInstructions"}
    [] page \in {"generalInstructions", "practiceInstructions",
                 "betweenTrials", "mainTrialTransition"} ->
         {ContinueTarget(page)}
    [] page = "processing" -> {"imageRating", "noImages"}
    [] page = "imageRating" -> {"thankYou"}
    [] OTHER -> {}

TrackSetPage(target) ==
  /\ target \in TrackTargets(currentPage)
  /\ currentPage' = target
  /\ UNCHANGED <<prolificId, currentTrialIndex, pollVars>>
  /\ UsePageTracking
  /\ TrackFrame

\* handleNextTrial at the end of an input phase
TrackNextTrial ==
  /\ currentPage = "promptInput"
  /\ HandleNextTrial(currentTrialIndex)
  /\ UNCHANGED prolificId
  /\ UsePageTracking
  /\ TrackFrame

\* the answer to a save-timing request: nothing on success, console.error
\* in the catch on failure (App.js:105)
SaveTimingResponse(outcome) ==
  /\ timingInFlight > 0
  /\ timingInFlight' = timingInFlight - 1
  /\ timingSent' = <<>>
  /\ UNCHANGED <<previousPageRef, startTimeRef, enteredAt>>
  /\ UNCHANGED <<appVars, planVars, timerVars, latencyVars, shuffleVars>>
  /\ UNCHANGED legacyVars

\* time passes
TrackElapse(dt) ==
  /\ now + dt <= MaxClock
  /\ now' = now + dt
  /\ timingSent' = <<>>
  /\ UNCHANGED <<previousPageRef, startTimeRef, timingInFlight, enteredAt>>
  /\ UNCHANGED <<appVars, planVars, timerOnlyVars, latencyVars, shuffleVars>>
  /\ UNCHANGED legacyVars

TrackingNext ==
  \/ \E v \in IdValues : TrackSubmitId(v)
  \/ \E t \in {"internetUsage", "aiExperienceSurvey", "generalInstructions",
               "practiceInstructions", "promptInput", "imageRating",
               "noImages", "thankYou"} : TrackSetPage(t)
  \/ TrackNextTrial
  \/ \E o \in Outcomes : SaveTimingResponse(o)
  \/ \E dt \in LatencySteps : TrackElapse(dt)

(***************************************************************************)
(* The poller of the application under the phase changes that lead to it   *)
(* (the work inside the earlier phases left out).                          *)
(***************************************************************************)
PollNext ==
  \/ \E v \in IdValues : TrackSubmitId(v)
  \/ \E t \in {"internetUsage", "aiExperienceSurvey", "generalInstructions",
               "practiceInstructions", "promptInput"} : TrackSetPage(t)
  \/ TrackNextTrial
  \/ \E o \in StatusOutcomes : StatusResponse(o)
  \/ PollTimeout
  \/ \E o \in Outcomes \cup {"missing"}, b \in Batches : ImagesResponse(o, b)

(***************************************************************************)
(* The older variant (src/unnamed/part_000): its Timer (part_000:80-131)   *)
(* as PromptInput mounts it (part_000:541), with handleTimerComplete       *)
(* (part_000:529-537) and handlePromptSubmit (part_000:868-908) behind     *)
(* onComplete.  legacyTimer: "idle" (never mounted), "mounted",            *)
(* "unmounted".  legacyEffectPending: a render with a changed timeLeft or  *)
(* isWarning has been committed and the setup effect has yet to run.       *)
(* A re-render of the parent only refreshes onCompleteRef (part_000:87-89).*)
(***************************************************************************)
\* PromptInput is shown: Timer mounts with useState(seconds)
LegacyMount(d) ==
  /\ legacyTimer \in {"idle", "unmounted"}
  /\ legacyInFlight = 0
  /\ legacyTimer' = "mounted"
  /\ legacyTimeLeft' = d
  /\ legacyIsWarning' = FALSE
  /\ legacyInterval' = FALSE
  /\ legacyEffectPending' = TRUE
  /\ legacyCompletions' = 0
  /\ legacySent' = 0
  /\ UNCHANGED <<legacyInFlight, legacyError>>
  /\ UNCHANGED <<appVars, planVars, timerVars, latencyVars, shuffleVars, trackVars>>

\* onCompleteRef.current?.(): handleTimerComplete calls onSubmit, and
\* handlePromptSubmit runs up to its await (part_000:529-537, 868-892)
LegacyOnComplete ==
  /\ legacyCompletions' = legacyCompletions + 1
  /\ legacySent' = legacySent + 1
  /\ legacyInFlight' = legacyInFlight + 1
  /\ legacyError' = Null

\* the setup effect with deps [timeLeft, isWarning] (part_000:92-131),
\* after the cleanup of its previous run
LegacyTimerEffect ==
  /\ legacyTimer = "mounted"
  /\ legacyEffectPending
  /\ legacyEffectPending' = FALSE
  /\ IF legacyTimeLeft <= 0
     THEN /\ legacyInterval' = FALSE
          /\ LegacyOnComplete
     ELSE /\ legacyInterval' = TRUE
          /\ UNCHANGED <<legacyCompletions, legacySent, legacyInFlight,
                         legacyError>>
  /\ UNCHANGED <<legacyTimer, legacyTimeLeft, legacyIsWarning>>
  /\ UNCHANGED <<appVars, planVars, timerVars, latencyVars, shuffleVars, trackVars>>

\* the interval callback and its setTimeLeft updater (part_000:105-120);
\* the effect of the previous render has run long before the second is up
LegacyTick ==
  /\ legacyTimer = "mounted"
  /\ legacyInterval
  /\ ~legacyEffectPending
  /\ legacyIsWarning' = (legacyIsWarning \/ legacyTimeLeft <= WARNING_TIME)
  /\ IF legacyTimeLeft <= 1
     THEN /\ legacyInterval' = FALSE
          /\ LegacyOnComplete
          /\ legacyTimeLeft' = 0
     ELSE /\ legacyTimeLeft' = legacyTimeLeft - 1
          /\ UNCHANGED <<legacyInterval, legacyCompletions, legacySent,
                         legacyInFlight, legacyError>>
  /\ legacyEffectPending' = (legacyTimeLeft' # legacyTimeLeft
                              \/ legacyIsWarning' # legacyIsWarning)
  /\ UNCHANGED legacyTimer
  /\ UNCHANGED <<appVars, planVars, timerVars, latencyVars, shuffleVars, trackVars>>

\* handlePromptSubmit after its await (part_000:893-907); the page change
\* unmounts PromptInput and its Timer, whose cleanup clears the interval.
\* The pending effect of a commit runs before a network answer is handled.
LegacySavePromptsResponse(outcome) ==
  /\ legacyInFlight > 0
  /\ ~legacyEffectPending
  /\ legacyInFlight' = legacyInFlight - 1
  /\ IF outcome = "ok"
     THEN /\ legacyTimer' = "unmounted"
          /\ legacyInterval' = FALSE
          /\ UNCHANGED legacyError
     ELSE /\ legacyError' = "Failed to save prompts. Please try again."
          /\ UNCHANGED <<legacyTimer, legacyInterval>>
  /\ UNCHANGED <<legacyTimeLeft, legacyIsWarning, legacyEffectPending,
                 legacyCompletions, legacySent>>
  /\ UNCHANGED <<appVars, planVars, timerVars, latencyVars, shuffleVars, trackVars>>

LegacyNext ==
  \/ \E d \in 1..MaxLegacySeconds : LegacyMount(d)
  \/ LegacyTimerEffect
  \/ LegacyTick
  \/ \E o \in Outcomes : LegacySavePromptsResponse(o)

(***************************************************************************)
(* Specifications.                                                         *)
(***************************************************************************)
Init ==
  /\ AppInit /\ TimerInit /\ PlanInit /\ LatencyInit /\ ShuffleInit
  /\ TrackInit /\ LegacyInit

Next == AppNext

Spec == Init /\ [][Next]_vars

TimerSpec == Init /\ [][TimerNext]_vars

LatencySpec == Init /\ [][LatencyNext]_vars

ShuffleSpec == Init /\ [][ShuffleNext]_vars

TrackingSpec == Init /\ [][TrackingNext]_vars

LegacySpec == Init /\ [][LegacyNext]_vars

\* a request that was sent is answered or fails, and the setTimeout
\* callback of the pending case runs
PollFairSpec ==
  /\ Init /\ [][PollNext]_vars
  /\ WF_vars(\E o \in StatusOutcomes : StatusResponse(o))
  /\ WF_vars(PollTimeout)
  /\ WF_vars(\E o \in Outcomes \cup {"missing"}, b \in Batches :
                ImagesResponse(o, b))

\* the browser keeps running a due interval callback and a pending effect,
\* and time keeps passing
TimerFairSpec ==
  /\ TimerSpec
  /\ WF_vars(Tick)
  /\ WF_vars(TimerEffect)
  /\ WF_vars(\E dt \in ClockSteps : ClockAdvance(dt))

(***************************************************************************)
(* Properties.                                                             *)
(***************************************************************************)
\* position of a phase in the fixed order of the experiment
PhaseRank(page, idx) ==
  CASE page = "prolificId" -> 0
    [] page = "consent" -> 1
    [] page = "internetUsage" -> 2
    [] page = "aiExperienceSurvey" -> 3
    [] page = "generalInstructions" -> 4
    [] page = "practiceInstructions" -> 5
    [] page = "promptInput" -> 2 * idx + 6
    [] page = "mainTrialTransition" -> 7
    [] page = "betweenTrials" -> 2 * idx + 5
    [] page = "processing" -> 19
    [] page = "imageRating" -> 20
    [] page = "noImages" -> 20
    [] page = "thankYou" -> 21

PhaseWellFormed(page, idx) ==
  /\ page = "promptInput" => idx \in 0..6
  /\ page = "mainTrialTransition" => idx = 1
  /\ page = "betweenTrials" => idx \in 2..6

\* C1: every step leaves the phase (page and trial index) where it is or
\* moves it to the next phase of the order IdEntry, Consent,
\* InternetUseAgreement, ExperienceSurvey, GeneralInstructions,
\* PracticeInstructions, InputPhase(0), TransitionToMain, InputPhase(1),
\* BetweenTrialInstructions(i), InputPhase(i) for i = 2..6, Processing,
\* ImageRating or NoContentAvailable, Completion (only from ImageRating):
\* no phase is skipped and none is entered again.
C1_PhaseOrder ==
  [][LET r == PhaseRank(currentPage, currentTrialIndex)
         r2 == PhaseRank(currentPage', currentTrialIndex')
     IN /\ PhaseWellFormed(currentPage', currentTrialIndex')
        /\ \/ r2 = r /\ currentPage' = currentPage
           \/ r2 = r + 1 /\ currentPage # "noImages"]_vars

C1_Witness == currentPage = "thankYou" /\ currentTrialIndex = 6

SavePromptOk(idx) ==
  [endpoint |-> "save-prompt", outcome |-> "ok", trialIndex |-> idx]

\* C2: from an input phase with a non-empty frozen prompt set, a step that
\* leaves the phase or changes the trial index is the continuation of a
\* success answer to the save-prompt request of that trial; the
\* continuation of a non-success or failed answer changes neither.
C2_LeaveOnlyAfterSave ==
  [][(currentPage = "promptInput" /\ isTimeUp /\ prompts # <<>>) =>
       /\ (currentPage' # currentPage \/ currentTrialIndex' # currentTrialIndex)
            => delivered' = SavePromptOk(currentTrialIndex)
       /\ (delivered'.endpoint = "save-prompt" /\ delivered'.outcome # "ok")
            => (currentPage' = currentPage
                /\ currentTrialIndex' = currentTrialIndex)]_vars

C2_Witness ==
  /\ delivered = SavePromptOk(1)
  /\ currentPage = "betweenTrials"
  /\ currentTrialIndex = 2

\* C3 (as claimed): in an input phase whose save-prompt request has failed
\* (MainApp holds the error, nothing is in flight) the submit action can
\* issue a save-prompt request again.
C3_RetryAfterFailure ==
  (currentPage = "promptInput" /\ isTimeUp /\ error # Null
     /\ savePrompt = NoRequest)
    => ENABLED (HandleSubmit /\ savePrompt' # NoRequest)

\* C4 (as claimed): an input phase whose frozen prompt set is empty is left
\* only as the continuation of the answer to a save-prompt request for
\* that trial, so the empty outcome has been sent to the backend.
C4_EmptyOutcomeRecorded ==
  [][(currentPage = "promptInput" /\ isTimeUp /\ prompts = <<>>
        /\ currentPage' # currentPage)
       => (delivered'.endpoint = "save-prompt"
           /\ delivered'.trialIndex = currentTrialIndex)]_vars

\* C5 (as claimed): the ExperienceSurvey phase is left only as the
\* continuation of a success answer to a save-survey request.
C5_SurveySavedBeforeLeaving ==
  [][(currentPage = "aiExperienceSurvey" /\ currentPage' # currentPage)
       => (delivered'.endpoint = "save-survey"
           /\ delivered'.outcome = "ok")]_vars

\* C6: a Timer rendered at clock 0 with duration `seconds` calls onComplete
\* at most once, never before seconds * 1000 ms have passed, and, as long
\* as it is not unmounted, it does call it: exactly once.
C6_FiresOnceNotEarly ==
  /\ [](completions <= 1)
  /\ [](completions = 1 => firedAt >= seconds * MsPerSecond)
  /\ (timerState # "idle") ~> (timerState = "unmounted" \/ completions = 1)

\* a late tick: the completion comes strictly after the deadline
C6_Witness ==
  /\ completions = 1
  /\ seconds > 0
  /\ timerState = "mounted"
  /\ firedAt > seconds * MsPerSecond

\* C7 (as claimed): once a Timer with duration 0 is mounted, onComplete has
\* been called, and no interval callback has had to run for it.
C7_ZeroFiresImmediately ==
  (timerState = "mounted" /\ seconds = 0) => (completions = 1 /\ ~tickRan)

\* C8: once the Timer has been unmounted, no step calls onComplete.
C8_NoFireAfterCancel ==
  [][timerState = "unmounted" => completions' = completions]_vars

\* cancelled before firing, and the clock has reached the instant at which
\* the interval callback would have fired onComplete
C8_Witness ==
  /\ timerState = "unmounted"
  /\ completions = 0
  /\ tickRan
  /\ now >= endTimeRef
  /\ now >= intervalArmedAt + TickMs

\* C9: at most 4 status requests are issued; after the 4th has answered
\* pending, the next step of the poller goes to NoContentAvailable and
\* issues no request.
C9_AtMostFourStatusRequests ==
  /\ [](statusRequests <= 4)
  /\ [][(pollState = "sleeping" /\ statusRequests = 4)
          => (currentPage' = "noImages" /\ statusRequests' = 4
              /\ pollState' = "done")]_vars

C9_Witness ==
  /\ currentPage = "noImages"
  /\ statusRequests = 4
  /\ attempts = 4
  /\ pollState = "done"
  /\ delivered = NoRequest

\* C10: a ready answer makes the poller fetch the image batch; the answer
\* to that fetch leads to ImageRating holding exactly the batch when the
\* batch is non-empty, and to NoContentAvailable when it is empty, missing
\* or the fetch failed; ImageRating never holds an empty image list.
C10_ReadyBatchRouting ==
  /\ [](currentPage = "imageRating" => Len(generatedImages) > 0)
  /\ [][/\ (delivered'.endpoint = "check-generation-status"
            /\ delivered'.outcome = "ready") => pollState' = "images"
        /\ delivered'.endpoint = "get-all-images" =>
             IF delivered'.outcome = "ok" /\ Len(delivered'.images) > 0
             THEN /\ currentPage' = "imageRating"
                  /\ generatedImages' = delivered'.images
             ELSE currentPage' = "noImages"]_vars

C10_Witness ==
  /\ currentPage = "imageRating"
  /\ delivered.endpoint = "get-all-images"
  /\ generatedImages = <<1, 2>>

\* C11: the continuation of a status answer no_trials, all_failed or of any
\* status other than ready and pending goes to NoContentAvailable in that
\* same step and ends the poll chain; once the chain has ended no status
\* request is issued any more.
C11_TerminalStatusStopsPolling ==
  /\ [][(delivered'.endpoint = "check-generation-status"
          /\ delivered'.outcome \in {"no_trials", "all_failed", "unknown"})
         => (currentPage' = "noImages" /\ pollState' = "done"
             /\ statusRequests' = statusRequests)]_vars
  /\ [][pollState = "done"
         => (pollState' = "done" /\ statusRequests' = statusRequests)]_vars

\* all_failed answers the third status request
C11_Witness ==
  /\ delivered.endpoint = "check-generation-status"
  /\ delivered.outcome = "all_failed"
  /\ delivered.attempt = 3
  /\ currentPage = "noImages"

\* C12 (as claimed): the continuation of a network failure of any request
\* of the poller, a status request or the image fetch, goes to
\* NoContentAvailable.
C12_PollerFailuresCaught ==
  [][(delivered'.endpoint \in {"check-generation-status", "get-all-images"}
        /\ delivered'.outcome = "networkError")
       => currentPage' = "noImages"]_vars

\* C13: in an input phase the selected prompt is unset or an entry of the
\* prompt list, and it is set only when the timer has expired; from a
\* frozen non-empty list with nothing selected no step sends a request or
\* leaves the phase; with an empty frozen list the submit action leaves
\* the phase, nothing being selected.
C13_SelectionRules ==
  /\ [](currentPage = "promptInput" =>
          /\ selectedPrompt # Null => isTimeUp
          /\ selectedPrompt # Null =>
                \E i \in 1..Len(prompts) : prompts[i] = selectedPrompt
          /\ (isTimeUp /\ prompts = <<>> /\ promptsRef = prompts) =>
                /\ selectedPrompt = Null
                /\ ENABLED (HandleSubmit /\ currentPage' # "promptInput"))
  /\ [][(currentPage = "promptInput" /\ isTimeUp /\ Len(prompts) >= 1
           /\ selectedPrompt = Null)
         => (savePrompt' = NoRequest /\ currentPage' = currentPage
             /\ currentTrialIndex' = currentTrialIndex)]_vars

\* a submission without a selection has just been rejected
C13_Witness ==
  /\ currentPage = "promptInput"
  /\ isTimeUp
  /\ Len(prompts) = 2
  /\ selectedPrompt = Null
  /\ inputError = "Please select one of your prompts before continuing."
  /\ savePrompt = NoRequest
  /\ ~hasSubmitted

\* C14 (as claimed): while the inputs are open, exactly one entry of the
\* prompt list is empty (after trimming).
C14_ExactlyOneEmptyEntry ==
  (currentPage = "promptInput" /\ ~isTimeUp)
    => Cardinality({i \in 1..Len(prompts) : Trim(prompts[i]) = ""}) = 1

NonBlank(p) == p \notin {"", " "}

\* C15: once the timer has expired every entry of the prompt list is
\* non-empty after trimming; the completion step makes the list the
\* non-blank entries it read, in their order; while the phase lasts no
\* later step changes the list.
C15_FrozenListFiltered ==
  /\ [](currentPage = "promptInput" /\ isTimeUp =>
           \A i \in 1..Len(prompts) : NonBlank(prompts[i]))
  /\ [][delivered'.endpoint = "timer" =>
           prompts' = SelectSeq(promptsRef', NonBlank)]_vars
  /\ [][(currentPage = "promptInput" /\ isTimeUp
           /\ currentPage' = "promptInput")
         => prompts' = prompts]_vars

\* the completion has just dropped a blank first entry and the open slot
C15_Witness ==
  /\ currentPage = "promptInput"
  /\ isTimeUp
  /\ delivered.endpoint = "timer"
  /\ promptsRef = <<" ", "b", "">>
  /\ prompts = <<"b">>

C17_FirstKeystrokeLatency ==
  /\ [](inputPhase = "reported" =>
           reportedLatency = IF firstKeyAt = NoTime THEN NoTime
                             ELSE firstKeyAt - responseStartRef)
  /\ [][(inputPhase = "open" /\ inputPhase' = "open"
           /\ firstKeypressTime # NoTime)
         => firstKeypressTime' = firstKeypressTime]_vars

\* a phase entered after the clock started, with a later keystroke after
\* the first
C17_Witness ==
  /\ inputPhase = "reported"
  /\ responseStartRef > 0
  /\ reportedLatency > 0
  /\ lastKeyAt > firstKeyAt

\* the plan's condition for trial index i, from the order label alone
PlannedCondition(i) ==
  IF i = 0 THEN "practice"
  ELSE IF (i <= BlockLength) = (conditions.order = "creative_first")
       THEN "BE_CREATIVE" ELSE "BE_FLUENT"

\* C18: a step that sends a save-prompt request sends the current trial
\* index, isPractice true exactly for index 0, the condition and the theme
\* the plan gives that index, the frozen prompt list as it stands, and the
\* selected prompt, which is an entry of that list.
C18_SavePromptPayload ==
  [][(savePrompt = NoRequest /\ savePrompt' # NoRequest) =>
       /\ savePrompt'.trialIndex = currentTrialIndex
       /\ savePrompt'.isPractice = (currentTrialIndex = 0)
       /\ savePrompt'.condition = PlannedCondition(currentTrialIndex)
       /\ savePrompt'.theme = trialThemes[currentTrialIndex + 1]
       /\ savePrompt'.prompts = prompts
       /\ savePrompt'.selectedPrompt = selectedPrompt
       /\ \E i \in 1..Len(prompts) : prompts[i] = selectedPrompt]_vars

\* the request of the first trial of the second block, fluent first
C18_Witness ==
  /\ savePrompt # NoRequest
  /\ savePrompt.trialIndex = 4
  /\ savePrompt.condition = "BE_CREATIVE"
  /\ savePrompt.prompts = <<"a", "b">>
  /\ savePrompt.selectedPrompt = "b"

\* C19: no step changes the condition order, the condition sequence or
\* the theme sequence.
C19_PlanNeverChanges ==
  [][conditions' = conditions /\ trialThemes' = trialThemes]_vars

\* the end of a session that saw a failed submission on the way
C19_Witness ==
  /\ currentPage = "noImages"
  /\ error # Null
  /\ conditions.order = "creative_first"
  /\ trialThemes[2] = "FUTURE"

\* C20: the condition sequence has 6 entries; the first three are one
\* condition and the last three the other; the order label names the
\* condition of the first three.
C20_TwoBlocksOfThree ==
  LET seq == conditions.sequence IN
  /\ Len(seq) = 6
  /\ seq[1] = seq[2] /\ seq[2] = seq[3]
  /\ seq[4] = seq[5] /\ seq[5] = seq[6]
  /\ seq[1] # seq[4]
  /\ {seq[1].id, seq[4].id} = {"BE_CREATIVE", "BE_FLUENT"}
  /\ conditions.order = (IF seq[1].id = "BE_CREATIVE" THEN "creative_first"
                         ELSE "fluent_first")

\* the fluent-first draw, seen in the first main trial
C20_Witness ==
  /\ conditions.order = "fluent_first"
  /\ currentPage = "promptInput"
  /\ currentTrialIndex = 1
  /\ getCurrentTrial(currentTrialIndex).condition = "BE_FLUENT"

\* C21: whatever the draws, the theme sequence built from shuffleArray's
\* result has the practice theme in slot 0 and every theme of the pool
\* exactly once in slots 1..6; the array handed to shuffleArray is the pool
\* unchanged at every step.
C21_ThemesArePermutation ==
  /\ array = TRIAL_THEMES
  /\ shuffleState = "returned" =>
       /\ Len(drawnThemes) = Len(TRIAL_THEMES) + 1
       /\ drawnThemes[1] = PRACTICE_THEME
       /\ \A k \in 1..Len(TRIAL_THEMES) :
            Cardinality({m \in 2..Len(drawnThemes) :
                           drawnThemes[m] = TRIAL_THEMES[k]}) = 1

\* a draw that leaves no theme in its place
C21_Witness ==
  /\ shuffleState = "returned"
  /\ drawnThemes =
       <<"SPACE", "MYSTERY", "COMFORT", "TIME", "FUTURE", "MEMORY", "CURIOSITY">>

C22_TrialLookupPure ==
  /\ [](/\ getCurrentTrial(0) =
              [theme |-> PRACTICE_THEME, condition |-> "practice"]
        /\ \A i \in 1..6 :
              getCurrentTrial(i) =
                [theme |-> At(trialThemes, i),
                 condition |-> At(conditions.sequence, i - 1).id])
  /\ [][\A i \in 0..6 : getCurrentTrial(i)' = getCurrentTrial(i)]_vars

\* the last trial of a fluent-first session, after a failed submission
C22_Witness ==
  /\ currentPage = "promptInput"
  /\ currentTrialIndex = 6
  /\ error # Null
  /\ getCurrentTrial(6) = [theme |-> trialThemes[7], condition |-> "BE_CREATIVE"]

Unrated(rs) ==
  {i \in 1..Len(rs) : rs[i].creativity \notin 0..4 \/ rs[i].intention \notin 0..4}

\* C23: a step that sends a save-ratings request starts from a rating page
\* that holds one pair of scores per image shown, every score a whole
\* number in 0..4; while a score is unset, no step of the participant (a
\* step that is not the continuation of a network answer) sends anything
\* or leaves the page.
C23_RatingsCompleteBeforeSave ==
  /\ [][Len(ratingReqs') > Len(ratingReqs) =>
          /\ Len(ratings) = Len(generatedImages)
          /\ Len(randomizedImages) = Len(generatedImages)
          /\ Unrated(ratings) = {}]_vars
  /\ [][(currentPage = "imageRating" /\ Unrated(ratings) # {}
           /\ delivered' = NoRequest) =>
          /\ ratingReqs' = ratingReqs
          /\ currentPage' = "imageRating"]_vars

\* a submission with one score missing has just been rejected
C23_Witness ==
  /\ currentPage = "imageRating"
  /\ Len(ratings) = 2
  /\ Cardinality(Unrated(ratings)) = 1
  /\ ratings[2].creativity = 4
  /\ ratings[2].intention = NoRating
  /\ ratingError = "Please provide both ratings for all images before continuing."
  /\ ratingReqs = <<>>

\* C25: the trial index is 0 at the start and stays in 0..6; a step that
\* changes it adds 1 and is the end of a submitted input phase (the timer
\* has expired), going to the instructions of the next trial; an input
\* phase is entered only from an instruction page, with the index that
\* page has; the input phase of trial 6 is left for Processing with the
\* index unchanged, and Processing is entered from nowhere else.
C25_TrialIndexAdvance ==
  /\ [](currentTrialIndex \in 0..6)
  /\ [][currentTrialIndex' # currentTrialIndex =>
          /\ currentTrialIndex' = currentTrialIndex + 1
          /\ currentPage = "promptInput" /\ isTimeUp
          /\ currentPage' = IF currentTrialIndex = 0
                            THEN "mainTrialTransition" ELSE "betweenTrials"]_vars
  /\ [][(currentPage' = "promptInput" /\ currentPage # "promptInput") =>
          /\ currentPage \in {"practiceInstructions", "mainTrialTransition",
                               "betweenTrials"}
          /\ currentTrialIndex' = currentTrialIndex]_vars
  /\ [][(currentPage' = "processing" /\ currentPage # "processing") =>
          (currentPage = "promptInput" /\ currentTrialIndex = 6
           /\ currentTrialIndex' = 6)]_vars
  /\ [][(currentPage = "promptInput" /\ currentTrialIndex = 6
          /\ currentPage' # "promptInput") => currentPage' = "processing"]_vars

\* the seventh input phase has been submitted
C25_Witness ==
  /\ currentPage = "processing"
  /\ currentTrialIndex = 6
  /\ delivered = SavePromptOk(6)

\* C26: from NoContentAvailable no step changes the page or the trial
\* index, issues a status request, or puts the poll chain back to work.
C26_NoContentTerminal ==
  [][currentPage = "noImages" =>
       /\ currentPage' = "noImages"
       /\ currentTrialIndex' = currentTrialIndex
       /\ statusRequests' = statusRequests
       /\ attempts' = attempts
       /\ pollState' = "done"
       /\ savePrompt' = NoRequest
       /\ ratingReqs' = <<>>]_vars

\* reached by an unknown status at the second attempt
C26_Witness ==
  /\ currentPage = "noImages"
  /\ delivered.endpoint = "check-generation-status"
  /\ delivered.outcome = "unknown"
  /\ delivered.attempt = 2

\* C27 (as claimed): after the continuation of a failed save-prompt,
\* save-ratings or mark-completion request, the page shows an error
\* message.
C27_FailureShowsError ==
  (delivered.endpoint \in {"save-prompt", "save-ratings", "mark-completion"}
     /\ delivered.outcome # "ok")
    => VisibleError # Null

\* C28: from an input phase whose timer has not fired, no step sends a
\* save-prompt request, leaves the phase or changes the trial index.
C28_NoSubmitWhileCollecting ==
  [][(currentPage = "promptInput" /\ ~isTimeUp) =>
       /\ savePrompt' = NoRequest
       /\ currentPage' = "promptInput"
       /\ currentTrialIndex' = currentTrialIndex]_vars

\* two prompts typed in the last trial, the timer still running
C28_Witness ==
  /\ currentPage = "promptInput"
  /\ currentTrialIndex = 6
  /\ ~isTimeUp
  /\ prompts = <<"a", "b", "">>
  /\ savePrompt = NoRequest

ValidationMessages ==
  {"Please agree to the consent form before continuing",
   "Please complete all required fields",
   "Please select one of your prompts before continuing.",
   "Please provide both ratings for all images before continuing."}

\* what the participant has entered
Entered ==
  <<idField, agreed, responses, prompts, selectedPrompt, randomizedImages,
    ratings>>

\* C29: a step that shows a validation message sends no request and leaves
\* the page, the trial index and everything entered as they were; with a
\* blank identifier, an agreement not given, a survey field missing, no
\* prompt selected from a non-empty frozen list, or a score unset, no step
\* of the participant (a step that is not the continuation of a network
\* answer) leaves the page or sends a request; and once the input is valid
\* the same action goes through, a message still showing or not.
C29_ValidationErrorFrame ==
  /\ [][(\/ formError' \in ValidationMessages /\ formError' # formError
         \/ inputError' \in ValidationMessages /\ inputError' # inputError
         \/ ratingError' \in ValidationMessages /\ ratingError' # ratingError)
        => /\ UNCHANGED <<currentPage, currentTrialIndex, prolificId>>
           /\ UNCHANGED <<savePrompt, ratingReqs, statusRequests>>
           /\ Entered' = Entered]_vars
  /\ [][(delivered' = NoRequest
         /\ (\/ currentPage = "prolificId" /\ idField \in {"", " "}
             \/ currentPage \in {"consent", "internetUsage"} /\ ~agreed
             \/ currentPage = "aiExperienceSurvey"
                  /\ \E f \in DOMAIN responses : responses[f] = ""
             \/ currentPage = "promptInput" /\ isTimeUp /\ prompts # <<>>
                  /\ selectedPrompt = Null
             \/ currentPage = "imageRating" /\ Unrated(ratings) # {}))
        => /\ currentPage' = currentPage
           /\ savePrompt' = NoRequest
           /\ ratingReqs' = ratingReqs]_vars
  /\ [](/\ (currentPage = "prolificId" /\ idField = "R7X9") =>
             ENABLED (SubmitProlificId /\ currentPage' = "consent")
        /\ (currentPage = "consent" /\ agreed) =>
             ENABLED (ConsentSubmit /\ currentPage' = "internetUsage")
        /\ (currentPage = "internetUsage" /\ agreed) =>
             ENABLED (InternetContinue /\ currentPage' = "aiExperienceSurvey")
        /\ (currentPage = "aiExperienceSurvey"
             /\ \A f \in DOMAIN responses : responses[f] # "") =>
             ENABLED (SurveySubmit /\ currentPage' = "generalInstructions")
        /\ (currentPage = "promptInput" /\ isTimeUp /\ ~hasSubmitted
             /\ selectedPrompt # Null /\ promptsRef = prompts) =>
             ENABLED (HandleSubmit /\ savePrompt' # NoRequest)
        /\ (currentPage = "imageRating" /\ ratings # <<>>
             /\ Unrated(ratings) = {} /\ Len(ratingReqs) < MaxInFlight) =>
             ENABLED (RatingHandleSubmit /\ Len(ratingReqs') > Len(ratingReqs)))

\* the survey has rejected a submission and the missing answer has since
\* been given
C29_Witness ==
  /\ currentPage = "aiExperienceSurvey"
  /\ formError = "Please complete all required fields"
  /\ responses.genAiExperience = "basic"
  /\ responses.textToImageExperience = "basic"

\* C30 (as claimed): the continuation of a failed save-ratings or
\* mark-completion request leaves the rating page with the image order it
\* had and with every score set.
C30_RatingsKeptAfterFailure ==
  [][(delivered'.endpoint \in {"save-ratings", "mark-completion"}
        /\ delivered'.outcome # "ok" /\ currentPage' = "imageRating")
       => /\ randomizedImages' = randomizedImages
          /\ Unrated(ratings') = {}]_vars

\* C31: the page becomes thankYou only in the step that handles a successful
\* answer to mark-completion, on imageRating, after the backend has accepted
\* a save-ratings request; a mark-completion request is issued only in the
\* step that handles a successful answer to save-ratings; and a failed
\* answer to either request leaves the page on imageRating.
MarkCompletionRequests(reqs) ==
  Cardinality({k \in 1..Len(reqs) : reqs[k] = "mark-completion"})

C31_CompletionAfterBothSaves ==
  /\ [][currentPage' = "thankYou" /\ currentPage # "thankYou" =>
          /\ currentPage = "imageRating"
          /\ ratingsSaved
          /\ delivered' = [endpoint |-> "mark-completion", outcome |-> "ok"]]_vars
  /\ [][MarkCompletionRequests(ratingReqs') > MarkCompletionRequests(ratingReqs) =>
          delivered' = [endpoint |-> "save-ratings", outcome |-> "ok"]]_vars
  /\ [][(/\ currentPage = "imageRating"
          /\ delivered' \in {[endpoint |-> e, outcome |-> o] :
                                e \in {"save-ratings", "mark-completion"},
                                o \in {"notOk", "networkError"}}) =>
          currentPage' = "imageRating"]_vars

C31_Witness ==
  /\ currentPage = "thankYou"
  /\ ratingsSaved
  /\ delivered = [endpoint |-> "mark-completion", outcome |-> "ok"]

\* C34: the first status request is issued by the step that submits the
\* input phase of trial 6 (an empty list, or the successful answer to its
\* save-prompt request), which is the step that enters processing; nothing
\* enters processing again; and a status request is issued only while no
\* other one awaits its answer.
C34_SinglePollChain ==
  /\ [](statusRequests = attempts)
  /\ [][statusRequests' # statusRequests =>
          /\ statusRequests' = statusRequests + 1
          /\ pollState \in {"idle", "sleeping"}
          /\ pollState' = "status"
          /\ currentTrialIndex = TotalTrials - 1]_vars
  /\ [][statusRequests = 0 /\ statusRequests' > 0 =>
          /\ currentPage = "promptInput" /\ isTimeUp
          /\ currentPage' = "processing"
          /\ \/ delivered' = [endpoint |-> "save-prompt", outcome |-> "ok",
                               trialIndex |-> TotalTrials - 1]
             \/ delivered' = NoRequest /\ FilterPrompts(prompts) = <<>>]_vars
  /\ [][currentPage' = "processing" /\ currentPage # "processing" =>
          /\ pollState = "idle"
          /\ statusRequests = 0 /\ statusRequests' = 1
          /\ pollState' = "status"]_vars
  /\ [][pollState # "idle" => pollState' # "idle"]_vars

C34_Witness ==
  /\ currentPage = "processing"
  /\ statusRequests = 1
  /\ pollState = "status"
  /\ delivered = [endpoint |-> "save-prompt", outcome |-> "ok",
                  trialIndex |-> TotalTrials - 1]

\* C37: at most one save-prompt request is issued in an input phase, the
\* request carries the index of that phase, the count starts again only
\* when the phase is left, and no trial index gets a second input phase:
\* leaving an input phase raises the index (or, at index 6, ends the
\* trials), and the index never goes down.
C37_OneSavePromptPerTrial ==
  /\ [](promptRequests <= 1)
  /\ [](savePrompt # NoRequest =>
          /\ savePrompt.trialIndex = currentTrialIndex
          /\ currentPage = "promptInput"
          /\ promptRequests = 1)
  /\ [][promptRequests' < promptRequests =>
          currentPage = "promptInput" /\ currentPage' # "promptInput"]_vars
  /\ [][currentTrialIndex' >= currentTrialIndex]_vars
  /\ [][currentPage = "promptInput" /\ currentPage' # "promptInput" =>
          \/ currentTrialIndex' = currentTrialIndex + 1
          \/ /\ currentTrialIndex = TotalTrials - 1
             /\ currentPage' \in {"processing", "noImages"}]_vars
  /\ [][(currentPage \in {"processing", "noImages", "imageRating", "thankYou"}) =>
          currentPage' # "promptInput"]_vars

C37_Witness ==
  /\ currentPage = "promptInput"
  /\ promptRequests = 1
  /\ hasSubmitted
  /\ savePrompt = NoRequest
  /\ delivered = NoRequest
  /\ error # Null

\* C38: an instruction screen before a main trial is TransitionToMain at
\* index 1 and BetweenTrialInstructions at indices 2..6; it shows the
\* condition getCurrentTrial gives for the index; the only step that leaves
\* it opens the input phase of the same index; and a save-prompt request
\* reports the condition of its trial index.
InstructionPages == {"mainTrialTransition", "betweenTrials"}

C38_InstructionMatchesTrial ==
  /\ [](currentPage \in InstructionPages =>
          /\ currentTrialIndex \in 1..(TotalTrials - 1)
          /\ (currentPage = "mainTrialTransition") = (currentTrialIndex = 1)
          /\ InstructionCondition(currentPage, currentTrialIndex)
               = getCurrentTrial(currentTrialIndex).condition)
  /\ [][(currentPage \in InstructionPages /\ currentPage' # currentPage) =>
          /\ currentPage' = "promptInput"
          /\ currentTrialIndex' = currentTrialIndex]_vars
  /\ [][(/\ currentPage' = "promptInput" /\ currentPage # "promptInput"
          /\ currentTrialIndex' >= 1) =>
          /\ currentPage \in InstructionPages
          /\ InstructionCondition(currentPage, currentTrialIndex)
               = getCurrentTrial(currentTrialIndex)'.condition]_vars
  /\ [](savePrompt # NoRequest /\ savePrompt.trialIndex >= 1 =>
          savePrompt.condition = PlannedCondition(savePrompt.trialIndex))

C38_Witness ==
  /\ currentPage = "betweenTrials"
  /\ currentTrialIndex = BlockLength + 1
  /\ InstructionCondition(currentPage, currentTrialIndex)
       # conditions.sequence[1].id

\* C39: the step that posts save-ratings posts one record per fetched
\* image, and each record carries the two scores that stood, at the click,
\* at the display slot of the image the record names.
C39_RatingsPairedWithImages ==
  /\ [][(ratingsSent' # <<>>) = (Len(ratingReqs') > Len(ratingReqs))]_vars
  /\ [][ratingsSent' # <<>> =>
          /\ Len(ratingsSent') = Len(generatedImages)
          /\ \A g \in 1..Len(generatedImages) :
                Cardinality({r \in 1..Len(ratingsSent') :
                               ratingsSent'[r].trialIndex = generatedImages[g]}) = 1
          /\ \A r \in 1..Len(ratingsSent') :
                \E k \in 1..Len(randomizedImages) :
                   /\ randomizedImages[k] = ratingsSent'[r].trialIndex
                   /\ ratingsSent'[r].creativityRating = ratings[k].creativity
                   /\ ratingsSent'[r].intentionRating = ratings[k].intention]_vars

C39_Witness ==
  /\ Len(ratingsSent) = 2
  /\ ratingsSent[1].trialIndex = 2
  /\ ratingsSent[1].creativityRating # ratingsSent[2].creativityRating
  /\ ratingsSent[1].intentionRating # ratingsSent[2].intentionRating

\* C40: once the backend has accepted a save-ratings request of the
\* session, no later step handles a successful answer to another one.
C40_RatingsPersistedOnce ==
  [][ratingsSaved =>
       delivered' # [endpoint |-> "save-ratings", outcome |-> "ok"]]_vars

\* C32: the totalResponseTime handed to onSubmit is the instant time
\* expired minus the instant the phase was entered.
C32_TotalIsStartToExpiry ==
  inputPhase = "reported" => reportedTotal = timeUpAt - responseStartRef

\* C33: no more than four status requests are issued, and with a fair
\* network and timer every stay on processing ends on imageRating or
\* noImages, unless a request failed in transport.
C33_PollingTerminates ==
  /\ [](statusRequests <= maxAttempts)
  /\ (currentPage = "processing") ~>
       (currentPage \in {"imageRating", "noImages"}
          \/ pollState = "unhandledRejection")

C33_Witness ==
  /\ currentPage = "imageRating"
  /\ statusRequests = maxAttempts
  /\ pollState = "done"
  /\ delivered.endpoint = "get-all-images"

\* C35: the result of shuffleArray is the function ShuffleFrom of the
\* values drawn; over the sequences of draws of a call on the pool that
\* function takes as many values as there are sequences, and its values
\* are the orderings of the pool.
C35_DrawsToOrderingsOneToOne ==
  /\ shuffleState = "returned" =>
       /\ draws \in DrawSequences(Len(array))
       /\ newArray = shuffleArray(array, draws)
  /\ shuffleState = "idle" =>
       LET results == {shuffleArray(array, js) :
                         js \in DrawSequences(Len(array))} IN
       /\ Cardinality(results) = Cardinality(DrawSequences(Len(array)))
       /\ results = Orderings(array)

C35_Witness ==
  /\ shuffleState = "returned"
  /\ draws = <<0, 0, 0, 0, 0>>
  /\ newArray = <<"MYSTERY", "COMFORT", "MEMORY", "CURIOSITY", "FUTURE", "TIME">>

\* C36: in the older variant a countdown calls onComplete at most once,
\* and its input phase sends at most one save-prompts request.
C36_LegacyFiresOnce ==
  legacyCompletions <= 1 /\ legacySent <= 1

============================================================================
